---- MODULE Spec2Model ----
(***************************************************************************)
(* Secure-Connect: the follow-gated direct-messaging data model.           *)
(*                                                                         *)
(* The database (tables, constraints and row-level-security policies of    *)
(* the migrations) is modelled as sets of rows with one operator per       *)
(* constraint or policy.  The screens (Discover, Requests, Chat) are       *)
(* modelled as handlers whose awaits are the points where other clients    *)
(* interleave: one action per request a handler sends, carrying the        *)
(* synchronous code that runs on its response up to the next request.      *)
(*                                                                         *)
(* User ids stand for uuids; their integer order stands for the order of   *)
(* the uuids (Postgres' uuid comparison and JavaScript's string sort agree *)
(* on canonical lower-case uuids).  A fresh row id (gen_random_uuid) is    *)
(* the number of rows of the table plus one: no row of follows, chats or   *)
(* messages is ever deleted by the application.  Reactions are deleted,    *)
(* so their ids are counted separately (reactionIds).                      *)
(*                                                                         *)
(* The change feed (supabase_realtime) is modelled as one queue of events  *)
(* per subscribed channel: a committed insert or delete is appended to the *)
(* queue of every channel whose filter it matches, and the events of a     *)
(* channel reach the client's callback in the order of their commits.      *)
(***************************************************************************)
EXTENDS Integers, FiniteSets, Sequences, TLC

\* ------------------------------------------------------------------ bounds

\* Rows the follows table may hold before Discover stops issuing requests.
MaxFollows == 2
\* Rows the messages table may hold before handlers stop being started.
MaxMessages == 2
\* Messages the users may send (the welcome messages are not counted).
MaxSends == 2
\* Channels the clients may have subscribed before the chatId effect stops
\* being run (an effect run subscribes two).
MaxChannels == 6
\* Ids the message_reactions table may hand out.
MaxReactions == 2
\* Objects the bucket may hold before the direct callers stop uploading.
MaxObjects == 2

\* The registered users (profiles), the Requests tabs, the Chat screens
\* and the Discover screens that are open at the same time.
Users == {1, 2, 3}
Tabs == {1, 2}
ChatScreens == {1, 2}
Discovers == {1}

\* auth.uid() of an unauthenticated caller, and a null id.
NoUser == 0
NoId == 0

VARIABLES
    follows,       \* public.follows: set of [id, follower_id, following_id, status]
    chats,         \* public.chats: set of [id, user1_id, user2_id]
    messages,      \* public.messages in creation order: Seq of [id, chat_id, sender_id, content, media_url]
    tabUser,       \* Requests: useAuth().user of each tab (NoUser: not mounted)
    requests,      \* Requests: the local list, a set of [id, follower]
    acc,           \* Requests: the handleAccept / handleReject call in flight
    chat,          \* Chat: route param, state and the initializeChat call
    disc,          \* Discover: user, followStatus and the handleFollow call
    reactions,     \* public.message_reactions: set of [id, message_id, user_id, emoji]
    reactionIds,   \* the number of ids message_reactions has handed out
    channels,      \* realtime: Seq of the channels the Chat screens subscribed
    live,          \* Chat: messages, reactions, sending and the calls of the chatId effect
    response,      \* the error code the last direct API request was answered with
    objects,       \* storage.objects of the bucket chat-files: set of [folder, name]
    result         \* the last direct read: [caller, table, rows]

vars == <<follows, chats, messages, tabUser, requests, acc, chat, disc,
          reactions, reactionIds, channels, live, response, objects, result>>

\* The reaction table and the state that the chatId effect of the Chat
\* screen and its handlers own.
liveVars == <<reactions, reactionIds, channels, live, response, objects, result>>

Statuses == {"pending", "accepted", "rejected"}

\* The answer to a direct read: who asked, what, and the rows returned.
NoResult == [caller |-> NoUser, table |-> "", rows |-> {}]

\* messages.media_url of a message without attachment (null).
NoUrl == [folder |-> NoId, name |-> <<0, "">>]

\* ---------------------------------------------------------------- database

\* gen_random_uuid(): an id no row of the table has.
NewId(rows) == Cardinality(rows) + 1

\* CREATE POLICY "Users can view their follow requests" ... USING
FollowsSelectPolicy(uid, row) ==
    uid = row.follower_id \/ uid = row.following_id

\* CREATE POLICY "Users can create follow requests" ... WITH CHECK
FollowsInsertPolicy(uid, row) == uid = row.follower_id

\* Mutant of FollowsUpdatePolicy: the policy lets every caller update.
FollowsUpdatePolicyOpen(uid, row) == TRUE

\* CREATE POLICY "Users can update follow requests they received" ... USING
FollowsUpdatePolicy(uid, row) == uid = row.following_id

\* Mutant of FollowsUnique: the table without its UNIQUE constraint.
FollowsUniqueDropped(rows, row) == TRUE

\* UNIQUE(follower_id, following_id)
FollowsUnique(rows, row) ==
    ~\E r \in rows : r.follower_id = row.follower_id
                      /\ r.following_id = row.following_id

\* CHECK (status IN ('pending', 'accepted', 'rejected'))
FollowsStatusCheck(row) == row.status \in Statuses

\* INSERT INTO follows by uid: the error code, "" when the row was inserted.
FollowsInsertError(uid, row) ==
    IF ~FollowsInsertPolicy(uid, row) THEN "42501"
    ELSE IF ~FollowsStatusCheck(row) THEN "23514"
    ELSE IF ~FollowsUnique(follows, row) THEN "23505"
    ELSE ""

FollowsAfterInsert(uid, row) ==
    IF FollowsInsertError(uid, row) = ""
    THEN follows \cup {[row EXCEPT !.id = NewId(follows)]}
    ELSE follows

\* UPDATE follows SET status = st WHERE id = rid, by uid: the rows the policy
\* hides are not updated, and updating no row is no error.
FollowsAfterUpdate(uid, rid, st) ==
    {IF r.id = rid /\ FollowsUpdatePolicy(uid, r)
     THEN [r EXCEPT !.status = st] ELSE r : r \in follows}

\* The two participants of a chats row, as a set.
Pair(c) == {c.user1_id, c.user2_id}

\* CREATE POLICY "Users can view their own chats" ... USING
ChatsSelectPolicy(uid, row) == uid = row.user1_id \/ uid = row.user2_id

\* CREATE POLICY "Users can create chats" ... WITH CHECK
ChatsInsertPolicy(uid, row) == uid = row.user1_id \/ uid = row.user2_id

\* Mutant of ChatsOrderCheck: the table without its CHECK constraint.
ChatsOrderCheckDropped(row) == TRUE

\* CHECK (user1_id < user2_id)
ChatsOrderCheck(row) == row.user1_id < row.user2_id

\* Mutant of ChatsUnique: the table without its UNIQUE constraint.
ChatsUniqueDropped(rows, row) == TRUE

\* UNIQUE(user1_id, user2_id)
ChatsUnique(rows, row) ==
    ~\E r \in rows : r.user1_id = row.user1_id /\ r.user2_id = row.user2_id

ChatsInsertError(uid, row) ==
    IF ~ChatsInsertPolicy(uid, row) THEN "42501"
    ELSE IF ~ChatsOrderCheck(row) THEN "23514"
    ELSE IF ~ChatsUnique(chats, row) THEN "23505"
    ELSE ""

ChatsAfterInsert(uid, row) ==
    IF ChatsInsertError(uid, row) = ""
    THEN chats \cup {[row EXCEPT !.id = NewId(chats)]}
    ELSE chats

\* SELECT id FROM chats WHERE user1_id = k[1] AND user2_id = k[2], by uid.
ChatsSelect(uid, k) ==
    {r \in chats : /\ ChatsSelectPolicy(uid, r)
                   /\ r.user1_id = k[1] /\ r.user2_id = k[2]}

\* .single(): the row when the result holds exactly one, else error PGRST116
\* and no data (NoId stands for the missing data).
SingleId(rows) ==
    IF Cardinality(rows) = 1 THEN (CHOOSE r \in rows : TRUE).id ELSE NoId

\* Mutant of MessagesInsertPolicy: the policy without auth.uid() = sender_id.
MessagesInsertPolicyAnySender(uid, row) ==
    \E c \in chats : /\ c.id = row.chat_id
                      /\ (c.user1_id = uid \/ c.user2_id = uid)

\* CREATE POLICY "Users can create messages in their chats" ... WITH CHECK
MessagesInsertPolicy(uid, row) ==
    /\ uid = row.sender_id
    /\ \E c \in chats : /\ c.id = row.chat_id
                        /\ (c.user1_id = uid \/ c.user2_id = uid)

MessagesInsertError(uid, row) ==
    IF ~MessagesInsertPolicy(uid, row) THEN "42501" ELSE ""

MessagesAfterInsert(uid, row) ==
    IF MessagesInsertError(uid, row) = ""
    THEN Append(messages, [row EXCEPT !.id = Len(messages) + 1])
    ELSE messages

\* CREATE POLICY "Users can view messages in their chats" ... USING
MessagesSelectPolicy(uid, row) ==
    \E c \in chats : /\ c.id = row.chat_id
                      /\ (c.user1_id = uid \/ c.user2_id = uid)

\* The row of messages with the given id.
MessageById(mid) == messages[mid]

MessageIds == 1..Len(messages)

\* SELECT * FROM messages WHERE chat_id = cid ORDER BY created_at, by uid.
MessagesSelect(uid, cid) ==
    SelectSeq(messages, LAMBDA m : MessagesSelectPolicy(uid, m) /\ m.chat_id = cid)

\* The messages channel of a screen: postgres_changes, event INSERT, table
\* messages, filter chat_id=eq.<chatId>.  The feed sends a subscriber the
\* rows the select policy lets it read.
ReceivesMessage(ch, row) ==
    /\ ch.table = "messages"
    /\ ~ch.stale
    /\ ch.chatId = row.chat_id
    /\ MessagesSelectPolicy(ch.user, row)

\* ALTER PUBLICATION supabase_realtime ADD TABLE public.messages: the insert
\* event of a committed row is queued on every channel that receives it.
ChannelsAfterMessage(uid, row) ==
    IF MessagesInsertError(uid, row) = ""
    THEN [i \in DOMAIN channels |->
            IF ReceivesMessage(channels[i], row)
            THEN [channels[i] EXCEPT !.queue =
                    Append(@, [eventType |-> "INSERT",
                               row |-> [row EXCEPT !.id = Len(messages) + 1]])]
            ELSE channels[i]]
    ELSE channels

\* The emoji of the reaction picker (popularEmojis), two of them.
Emojis == {"heart", "thumb"}

\* Mutant of ReactionsSelectPolicy: the table readable by every caller.
ReactionsSelectPolicyOpen(uid, row) == TRUE

\* CREATE POLICY "Users can view reactions in their chats" ... USING
ReactionsSelectPolicy(uid, row) ==
    \E m \in MessageIds :
        /\ m = row.message_id
        /\ \E c \in chats : /\ c.id = MessageById(m).chat_id
                            /\ (c.user1_id = uid \/ c.user2_id = uid)

\* CREATE POLICY "Users can add reactions to messages in their chats"
ReactionsInsertPolicy(uid, row) ==
    /\ uid = row.user_id
    /\ \E m \in MessageIds :
        /\ m = row.message_id
        /\ \E c \in chats : /\ c.id = MessageById(m).chat_id
                            /\ (c.user1_id = uid \/ c.user2_id = uid)

\* CREATE POLICY "Users can delete their own reactions" ... USING
ReactionsDeletePolicy(uid, row) == uid = row.user_id

\* Mutant of ReactionsUnique: the table without unique_user_message_emoji.
ReactionsUniqueDropped(rows, row) == TRUE

\* CONSTRAINT unique_user_message_emoji UNIQUE (message_id, user_id, emoji)
ReactionsUnique(rows, row) ==
    ~\E r \in rows : /\ r.message_id = row.message_id
                      /\ r.user_id = row.user_id
                      /\ r.emoji = row.emoji

\* INSERT INTO message_reactions by uid: the error code, "" when inserted.
\* The foreign key on message_id fails for a message that does not exist.
ReactionsInsertError(uid, row) ==
    IF ~ReactionsInsertPolicy(uid, row) THEN "42501"
    ELSE IF row.message_id \notin MessageIds THEN "23503"
    ELSE IF ~ReactionsUnique(reactions, row) THEN "23505"
    ELSE ""

ReactionsAfterInsert(uid, row) ==
    IF ReactionsInsertError(uid, row) = ""
    THEN reactions \cup {[row EXCEPT !.id = reactionIds + 1]}
    ELSE reactions

ReactionIdsAfterInsert(uid, row) ==
    IF ReactionsInsertError(uid, row) = "" THEN reactionIds + 1 ELSE reactionIds

\* DELETE FROM message_reactions WHERE id = rid, by uid: the rows the policy
\* hides are not deleted, and deleting no row is no error.
ReactionsDeleted(uid, rid) ==
    {r \in reactions : r.id = rid /\ ReactionsDeletePolicy(uid, r)}

ReactionsAfterDelete(uid, rid) == reactions \ ReactionsDeleted(uid, rid)

\* The reactions channel of a screen: postgres_changes, events INSERT and
\* DELETE, table message_reactions, no filter.
ReceivesReaction(ch, row) ==
    /\ ch.table = "message_reactions"
    /\ ~ch.stale
    /\ ReactionsSelectPolicy(ch.user, row)

\* INSERT INTO storage.buckets ... VALUES ('chat-files', 'chat-files', true):
\* the objects of a public bucket are served under their public URL to
\* every caller, with no policy consulted.
BucketPublic == TRUE

\* The three policies on storage.objects of chat-files have one condition:
\* the caller is a participant of the chat whose id is the first folder of
\* the object's name.
ObjectsSelectPolicy(uid, obj) ==
    \E c \in chats : /\ (c.user1_id = uid \/ c.user2_id = uid)
                      /\ obj.folder = c.id

ObjectsInsertPolicy(uid, obj) ==
    \E c \in chats : /\ (c.user1_id = uid \/ c.user2_id = uid)
                      /\ obj.folder = c.id

ObjectsDeletePolicy(uid, obj) ==
    \E c \in chats : /\ (c.user1_id = uid \/ c.user2_id = uid)
                      /\ obj.folder = c.id

\* storage.from('chat-files').upload(path, file) by uid, without upsert: the
\* error, "" when stored.  An object of the same name is not replaced.
ObjectsInsertError(uid, obj) ==
    IF ~ObjectsInsertPolicy(uid, obj) THEN "403"
    ELSE IF obj \in objects THEN "409"
    ELSE ""

ObjectsAfterInsert(uid, obj) ==
    IF ObjectsInsertError(uid, obj) = "" THEN objects \cup {obj} ELSE objects

\* storage.from('chat-files').remove([path]) by uid: the objects the policy
\* hides are not removed.
ObjectsAfterDelete(uid, obj) ==
    IF ObjectsDeletePolicy(uid, obj) THEN objects \ {obj} ELSE objects

\* A read of an object by uid, under its public URL (the url getPublicUrl
\* returns) or through the authenticated download.
ObjectsRead(uid, obj) ==
    obj \in objects /\ (BucketPublic \/ ObjectsSelectPolicy(uid, obj))

\* What payload.old of a DELETE event holds: the migration sets no REPLICA
\* IDENTITY for message_reactions, and with the default of the database
\* the old record is the primary key alone ("key"); a database configured
\* with REPLICA IDENTITY FULL sends the whole row ("full").
OldRecords == {"full", "key"}

OldRecord(row, old) ==
    IF old = "full" THEN row
    ELSE [id |-> row.id, message_id |-> NoId, user_id |-> NoUser, emoji |-> ""]

\* ALTER PUBLICATION supabase_realtime ADD TABLE public.message_reactions:
\* the event of each of the rows written (at most one) joins the queues of
\* the channels that receive it.
ChannelsAfterReaction(eventType, rows, old) ==
    [i \in DOMAIN channels |->
        IF \E r \in rows : ReceivesReaction(channels[i], r)
        THEN [channels[i] EXCEPT !.queue =
                Append(@, [eventType |-> eventType,
                           row |-> OldRecord(CHOOSE r \in rows :
                                        ReceivesReaction(channels[i], r), old)])]
        ELSE channels[i]]

\* ----------------------------------------------------------------- Discover

NoStatus == [p \in Users |-> "none"]

DiscInit ==
    [user |-> NoUser, followStatus |-> NoStatus, fetching |-> FALSE,
     statusMap |-> NoStatus, pc |-> "idle", profileId |-> NoUser,
     closure |-> NoStatus, toast |-> ""]

\* fetchFollowStatus, the query: the caller's own rows, as a map from
\* following_id to status.
FollowStatusMap(uid) ==
    [p \in Users |->
        IF \E r \in follows : /\ FollowsSelectPolicy(uid, r)
                              /\ r.follower_id = uid /\ r.following_id = p
        THEN (CHOOSE r \in follows : /\ FollowsSelectPolicy(uid, r)
                                     /\ r.follower_id = uid
                                     /\ r.following_id = p).status
        ELSE "none"]

\* The screen mounts for user u: followStatus starts as {} and the effect
\* sends fetchFollowStatus' query.
DiscoverMount(d, u) ==
    /\ disc[d].pc = "idle"
    /\ disc' = [disc EXCEPT ![d] =
                    [DiscInit EXCEPT !.user = u, !.fetching = TRUE,
                                     !.statusMap = FollowStatusMap(u)]]
    /\ UNCHANGED <<follows, chats, messages, tabUser, requests, acc, chat>>
    /\ UNCHANGED liveVars

\* fetchFollowStatus, the response: setFollowStatus(statusMap).
FetchFollowStatusSet(d) ==
    /\ disc[d].fetching
    /\ disc' = [disc EXCEPT ![d].followStatus = disc[d].statusMap,
                            ![d].fetching = FALSE,
                            ![d].statusMap = NoStatus]
    /\ UNCHANGED <<follows, chats, messages, tabUser, requests, acc, chat>>
    /\ UNCHANGED liveVars

\* The row handleFollow inserts.
FollowRow(uid, profileId) ==
    [id |-> NoId, follower_id |-> uid, following_id |-> profileId,
     status |-> "pending"]

\* handleFollow(profileId), the insert.  The Follow button is rendered for
\* the profiles other than the user's own whose local status is 'none'.
\* An error is thrown to the catch block, which shows the error toast.
HandleFollow(d, profileId) ==
    /\ disc[d].user # NoUser
    /\ disc[d].pc = "idle"
    /\ profileId # disc[d].user
    /\ disc[d].followStatus[profileId] = "none"
    /\ Cardinality(follows) < MaxFollows
    /\ follows' = FollowsAfterInsert(disc[d].user, FollowRow(disc[d].user, profileId))
    /\ disc' = [disc EXCEPT ![d] =
            IF FollowsInsertError(disc[d].user, FollowRow(disc[d].user, profileId)) = ""
            THEN [disc[d] EXCEPT !.pc = "set", !.profileId = profileId,
                                 !.closure = disc[d].followStatus, !.toast = ""]
            ELSE [disc[d] EXCEPT !.toast = "error"]]
    /\ UNCHANGED <<chats, messages, tabUser, requests, acc, chat>>
    /\ UNCHANGED liveVars

\* handleFollow, after the insert succeeded: setFollowStatus({...followStatus,
\* [profileId]: 'pending'}) with the followStatus of the render that made
\* the call, and the success toast.
HandleFollowSet(d) ==
    /\ disc[d].pc = "set"
    /\ disc' = [disc EXCEPT ![d].followStatus =
                                [disc[d].closure EXCEPT ![disc[d].profileId] = "pending"],
                            ![d].pc = "idle",
                            ![d].profileId = NoUser,
                            ![d].closure = NoStatus,
                            ![d].toast = "success"]
    /\ UNCHANGED <<follows, chats, messages, tabUser, requests, acc, chat>>
    /\ UNCHANGED liveVars

\* ----------------------------------------------------------------- Requests

\* [user?.id, followerId].sort(): the two ids in ascending order.
SortedIds(x, y) == IF y < x THEN <<y, x>> ELSE <<x, y>>

NoKey == <<NoUser, NoUser>>

\* .update({ status: 'accepted' }) and .update({ status: 'rejected' })
AcceptedStatus == "accepted"

\* Mutant of RejectedStatus: rejecting puts the request back to pending.
RejectedStatusPending == "pending"

RejectedStatus == "rejected"

\* The locals of a handleReject call: the Accept and Reject buttons stay
\* enabled while a call is in flight, so a handleReject call may run while
\* a handleAccept call of the same tab does.
NoReject == [pc |-> "idle", requestId |-> NoId, closure |-> {}]

\* The locals of a handleAccept call, the handleReject call (rej) and the
\* last toast of the tab.  wasPending is history: whether the request was
\* pending when the update of the call reached it.
AccInit ==
    [pc |-> "idle", requestId |-> NoId, followerId |-> NoUser,
     sortedIds |-> NoKey, chatId |-> NoId, closure |-> {}, toast |-> "",
     wasPending |-> FALSE, rej |-> NoReject]

\* fetchRequests: the pending rows whose following_id is the user.
PendingRequests(uid) ==
    {[id |-> r.id, follower |-> r.follower_id] :
        r \in {x \in follows : /\ FollowsSelectPolicy(uid, x)
                               /\ x.following_id = uid
                               /\ x.status = "pending"}}

\* The screen mounts for user u and fetchRequests fills the list.  A tab is
\* opened again only between two calls of its handlers.
RequestsMount(t, u) ==
    /\ acc[t].pc = "idle" /\ acc[t].rej.pc = "idle"
    /\ tabUser' = [tabUser EXCEPT ![t] = u]
    /\ requests' = [requests EXCEPT ![t] = PendingRequests(u)]
    /\ acc' = [acc EXCEPT ![t] = AccInit]
    /\ UNCHANGED <<follows, chats, messages, chat, disc>>
    /\ UNCHANGED liveVars

\* The handleAccept calls that have still to insert their welcome message.
Accepting == {t \in Tabs : acc[t].pc \in {"lookup", "insert", "message"}}

\* handleAccept(requestId, followerId), clicked on an entry of the local
\* list: the update of the follow row.  An update that matches no row is no
\* error (network failures are not modelled), so the handler goes on to the
\* lookup.  One call per tab is in flight at a time.
HandleAcceptUpdate(t, req) ==
    /\ acc[t].pc = "idle"
    /\ req \in requests[t]
    /\ Len(messages) + Cardinality(Accepting) < MaxMessages
    /\ follows' = FollowsAfterUpdate(tabUser[t], req.id, AcceptedStatus)
    /\ acc' = [acc EXCEPT ![t] =
                  [AccInit EXCEPT !.rej = acc[t].rej, !.pc = "lookup", !.requestId = req.id,
                                  !.followerId = req.follower,
                                  !.sortedIds = SortedIds(tabUser[t], req.follower),
                                  !.closure = requests[t],
                                  !.wasPending =
                                      \E r \in follows : r.id = req.id
                                                          /\ r.status = "pending"]]
    /\ UNCHANGED <<chats, messages, tabUser, requests, chat, disc>>
    /\ UNCHANGED liveVars

\* handleAccept, the lookup of the chat: chatId = existingChat?.id.
HandleAcceptLookup(t) ==
    /\ acc[t].pc = "lookup"
    /\ acc' = [acc EXCEPT ![t].chatId = SingleId(ChatsSelect(tabUser[t], acc[t].sortedIds)),
                          ![t].pc = IF SingleId(ChatsSelect(tabUser[t], acc[t].sortedIds)) = NoId
                                    THEN "insert" ELSE "message"]
    /\ UNCHANGED <<follows, chats, messages, tabUser, requests, chat, disc>>
    /\ UNCHANGED liveVars

\* The row the chat screens and handleAccept insert.
ChatRow(k) == [id |-> NoId, user1_id |-> k[1], user2_id |-> k[2]]

\* handleAccept, the insert of the chat: chatError is thrown to the catch
\* block, which shows the error toast.
HandleAcceptInsert(t) ==
    /\ acc[t].pc = "insert"
    /\ chats' = ChatsAfterInsert(tabUser[t], ChatRow(acc[t].sortedIds))
    /\ acc' = [acc EXCEPT ![t] =
            IF ChatsInsertError(tabUser[t], ChatRow(acc[t].sortedIds)) = ""
            THEN [acc[t] EXCEPT !.pc = "message", !.chatId = NewId(chats)]
            ELSE [AccInit EXCEPT !.rej = acc[t].rej, !.toast = "error"]]
    /\ UNCHANGED <<follows, messages, tabUser, requests, chat, disc>>
    /\ UNCHANGED liveVars

\* The welcome message of handleAccept.
WelcomeRow(uid, chatId) ==
    [id |-> NoId, chat_id |-> chatId, sender_id |-> uid, content |-> "welcome",
     media_url |-> NoUrl]

\* handleAccept, the insert of the welcome message.
HandleAcceptMessage(t) ==
    /\ acc[t].pc = "message"
    /\ messages' = MessagesAfterInsert(tabUser[t], WelcomeRow(tabUser[t], acc[t].chatId))
    /\ acc' = [acc EXCEPT ![t] =
            IF MessagesInsertError(tabUser[t], WelcomeRow(tabUser[t], acc[t].chatId)) = ""
            THEN [acc[t] EXCEPT !.pc = "accepted"]
            ELSE [AccInit EXCEPT !.rej = acc[t].rej, !.toast = "error"]]
    /\ channels' = ChannelsAfterMessage(tabUser[t], WelcomeRow(tabUser[t], acc[t].chatId))
    /\ UNCHANGED <<follows, chats, tabUser, requests, chat, disc>>
    /\ UNCHANGED <<reactions, reactionIds, live, response>>
    /\ UNCHANGED <<objects, result>>

\* handleAccept, the end: setRequests(requests.filter(...)) with the requests
\* of the render that made the call, and the success toast.
HandleAcceptDone(t) ==
    /\ acc[t].pc = "accepted"
    /\ requests' = [requests EXCEPT ![t] =
                        {r \in acc[t].closure : r.id # acc[t].requestId}]
    /\ acc' = [acc EXCEPT ![t] = [AccInit EXCEPT !.rej = acc[t].rej, !.toast = "success"]]
    /\ UNCHANGED <<follows, chats, messages, tabUser, chat, disc>>
    /\ UNCHANGED liveVars

\* handleReject(requestId), the update of the follow row.
HandleRejectUpdate(t, req) ==
    /\ acc[t].rej.pc = "idle"
    /\ req \in requests[t]
    /\ follows' = FollowsAfterUpdate(tabUser[t], req.id, RejectedStatus)
    /\ acc' = [acc EXCEPT ![t].rej = [pc |-> "rejected", requestId |-> req.id,
                                      closure |-> requests[t]],
                          ![t].toast = ""]
    /\ UNCHANGED <<chats, messages, tabUser, requests, chat, disc>>
    /\ UNCHANGED liveVars

\* handleReject, the end: setRequests(requests.filter(...)) with the requests
\* of the render that made the call, and the success toast.
HandleRejectDone(t) ==
    /\ acc[t].rej.pc = "rejected"
    /\ requests' = [requests EXCEPT ![t] =
                        {r \in acc[t].rej.closure : r.id # acc[t].rej.requestId}]
    /\ acc' = [acc EXCEPT ![t].rej = NoReject, ![t].toast = "success"]
    /\ UNCHANGED <<follows, chats, messages, tabUser, chat, disc>>
    /\ UNCHANGED liveVars

\* --------------------------------------------------------------------- Chat

ChatInit ==
    [user |-> NoUser, userId |-> NoUser, pc |-> "closed", canChat |-> FALSE,
     chatId |-> NoId, sortedIds |-> NoKey, toast |-> ""]

\* Mutant of AcceptedBetween: the query without .eq('status', 'accepted').
AcceptedBetweenAnyStatus(uid, userId) ==
    {r \in follows :
        \/ (r.follower_id = uid /\ r.following_id = userId)
        \/ (r.follower_id = userId /\ r.following_id = uid)}

\* initializeChat, the connection check: the rows of follows between the
\* two users, in either direction, whose status is accepted.
AcceptedBetween(uid, userId) ==
    {r \in follows :
        /\ FollowsSelectPolicy(uid, r)
        /\ \/ (r.follower_id = uid /\ r.following_id = userId)
           \/ (r.follower_id = userId /\ r.following_id = uid)
        /\ r.status = "accepted"}

\* const isConnected = followData && followData.length > 0
IsConnected(uid, userId) == Cardinality(AcceptedBetween(uid, userId)) > 0

\* The screen /chat/:userId mounts for user u; the other user's profile is
\* loaded and the effect runs initializeChat.  A screen is opened again only
\* after its initializeChat has ended.
ChatOpen(s, u, userId) ==
    /\ chat[s].pc \in {"closed", "done"}
    /\ chat' = [chat EXCEPT ![s] =
                   [ChatInit EXCEPT !.user = u, !.userId = userId, !.pc = "follow"]]
    /\ UNCHANGED <<follows, chats, messages, tabUser, requests, acc, disc>>
    /\ UNCHANGED liveVars

\* initializeChat, the connection check: setCanChat(isConnected) and, when
\* not connected, the error toast and return.
InitChatFollowCheck(s) ==
    /\ chat[s].pc = "follow"
    /\ chat' = [chat EXCEPT ![s] =
            IF IsConnected(chat[s].user, chat[s].userId)
            THEN [chat[s] EXCEPT !.canChat = TRUE, !.pc = "lookup",
                                 !.sortedIds = SortedIds(chat[s].user, chat[s].userId)]
            ELSE [chat[s] EXCEPT !.canChat = FALSE, !.pc = "done",
                                 !.toast = "error"]]
    /\ UNCHANGED <<follows, chats, messages, tabUser, requests, acc, disc>>
    /\ UNCHANGED liveVars

\* initializeChat, the lookup of the chat: PGRST116 (not exactly one row)
\* leads to the insert, a row to setChatId(existingChat.id).
InitChatLookup(s) ==
    /\ chat[s].pc = "lookup"
    /\ chat' = [chat EXCEPT ![s] =
            IF SingleId(ChatsSelect(chat[s].user, chat[s].sortedIds)) = NoId
            THEN [chat[s] EXCEPT !.pc = "insert"]
            ELSE [chat[s] EXCEPT !.pc = "done",
                    !.chatId = SingleId(ChatsSelect(chat[s].user, chat[s].sortedIds))]]
    /\ UNCHANGED <<follows, chats, messages, tabUser, requests, acc, disc>>
    /\ UNCHANGED liveVars

\* initializeChat, the insert of the chat: createError is thrown to the catch
\* block, which shows 'Failed to load chat'; else setChatId(newChat.id).
InitChatInsert(s) ==
    /\ chat[s].pc = "insert"
    /\ chats' = ChatsAfterInsert(chat[s].user, ChatRow(chat[s].sortedIds))
    /\ chat' = [chat EXCEPT ![s] =
            IF ChatsInsertError(chat[s].user, ChatRow(chat[s].sortedIds)) = ""
            THEN [chat[s] EXCEPT !.pc = "done", !.chatId = NewId(chats)]
            ELSE [chat[s] EXCEPT !.pc = "done", !.toast = "error"]]
    /\ UNCHANGED <<follows, messages, tabUser, requests, acc, disc>>
    /\ UNCHANGED liveVars

\* ------------------------------------------------ Chat: the chatId effect

NoLoad == [pc |-> "idle", chatId |-> NoId, data |-> <<>>]
NoReactionLoad == [pc |-> "idle", messageIds |-> {}, data |-> <<>>]

\* The state of a mounted Chat screen beside that of initializeChat:
\* messages, reactions and sending, the toast of the send and reaction
\* handlers, the chatId of the render whose effect ran last, whether
\* initializeChat is running again after a change of the route, and the
\* calls of subscribeToMessages and loadReactions in flight.
\* lastToggle is history: the message and emoji of the last call of
\* handleReaction and the id of the row it inserted (NoId when it inserted
\* none).
NoToggle == [message_id |-> NoId, emoji |-> "", id |-> NoId]

\* selectedFile without a file (null), and the call of handleSendMessage:
\* where it is, the draft and the file of the render that ran it, and the
\* path it uploads to.
NoFile == [name |-> "", ext |-> "", size |-> 0]

NoSend == [pc |-> "idle", newMessage |-> "", selectedFile |-> NoFile,
           path |-> NoUrl]

LiveInit ==
    [messages |-> <<>>, reactions |-> <<>>, sending |-> FALSE,
     sendError |-> "", toast |-> "",
     effectChatId |-> NoId, reinit |-> FALSE,
     load |-> NoLoad, rload |-> NoReactionLoad, lastToggle |-> NoToggle,
     newMessage |-> "", selectedFile |-> NoFile, uploading |-> FALSE,
     send |-> NoSend]

\* The loading state: true from the mount to the end of the first
\* initializeChat (its finally block), and never set to true again.
Loading(s) == chat[s].pc # "done" /\ ~live[s].reinit

\* The chatId effect of screen s has still to run for the chatId of the
\* last render.
EffectPending(s) ==
    chat[s].chatId # NoId /\ chat[s].chatId # live[s].effectChatId

\* useParams().userId changes while the screen stays mounted: the effect on
\* [user, userId] runs initializeChat again; no state is reset.  The route
\* changes only once the screen has finished loading.
ChatRouteChange(s, userId) ==
    /\ chat[s].pc = "done"
    /\ Len(channels) + 2 <= MaxChannels
    /\ live[s].load.pc = "idle" /\ live[s].rload.pc = "idle"
    /\ ~live[s].sending
    /\ userId # chat[s].userId
    /\ userId # chat[s].user
    /\ chat' = [chat EXCEPT ![s].userId = userId, ![s].pc = "follow",
                            ![s].sortedIds = NoKey, ![s].toast = ""]
    /\ live' = [live EXCEPT ![s].reinit = TRUE]
    /\ UNCHANGED <<follows, chats, messages, tabUser, requests, acc, disc>>
    /\ UNCHANGED <<reactions, reactionIds, channels, response>>
    /\ UNCHANGED <<objects, result>>

\* What the realtime library does when the client (the browser tab, screen
\* s) subscribes a channel whose name it has already subscribed; the
\* library is not part of the repository and its versions differ: both
\* channels stay joined ("both"), the earlier one is left ("new"), or the
\* earlier one is handed out again and the second subscribe fails ("old").
SubscribeModes == {"both", "new", "old"}

SameName(c, ch) ==
    c.screen = ch.screen /\ c.table = ch.table /\ c.chatId = ch.chatId

\* supabase.channel(name).on(...).subscribe(): the channel joins the
\* client's channels.
Subscribed(chs, ch, mode) ==
    IF ~\E i \in DOMAIN chs : SameName(chs[i], ch) THEN Append(chs, ch)
    ELSE IF mode = "both" THEN Append(chs, ch)
    ELSE IF mode = "new" THEN Append(SelectSeq(chs, LAMBDA c : ~SameName(c, ch)), ch)
    ELSE chs

Channel(s, table, chatId) ==
    [screen |-> s, user |-> chat[s].user, table |-> table, chatId |-> chatId,
     stale |-> FALSE, queue |-> <<>>]

\* The ids of the rows of a set, in ascending order.
RECURSIVE SortById(_)
SortById(rows) ==
    IF rows = {} THEN <<>>
    ELSE LET r == CHOOSE x \in rows : \A y \in rows : x.id <= y.id
         IN <<r>> \o SortById(rows \ {r})

\* useEffect(..., [chatId]): with a chatId that is set and differs from the
\* one of the last run, the effect calls subscribeToMessages (which sends
\* the bulk load), loadReactions (which sends the query of the message ids)
\* and subscribeToReactions (which subscribes at once).  The effect returns
\* nothing, so no channel of an earlier run is removed.
ChatIdEffect(s, mode) ==
    /\ EffectPending(s)
    /\ live[s].load.pc = "idle" /\ live[s].rload.pc = "idle"
    /\ live' = [live EXCEPT
            ![s].effectChatId = chat[s].chatId,
            ![s].load = [pc |-> "bulk", chatId |-> chat[s].chatId,
                         data |-> MessagesSelect(chat[s].user, chat[s].chatId)],
            ![s].rload = [pc |-> "ids",
                          messageIds |-> {m \in MessageIds :
                               /\ MessagesSelectPolicy(chat[s].user, MessageById(m))
                               /\ MessageById(m).chat_id = chat[s].chatId},
                          data |-> <<>>]]
    /\ channels' = Subscribed(channels,
                        Channel(s, "message_reactions", chat[s].chatId), mode)
    /\ UNCHANGED <<follows, chats, messages, tabUser, requests, acc, chat, disc>>
    /\ UNCHANGED <<reactions, reactionIds, response>>
    /\ UNCHANGED <<objects, result>>

\* subscribeToMessages, the response of the bulk load: setMessages(data),
\* then the channel chat:<chatId> is subscribed, with the chatId of the
\* render that ran the effect.
SubscribeToMessages(s, mode) ==
    /\ live[s].load.pc = "bulk"
    /\ live' = [live EXCEPT ![s].messages = live[s].load.data,
                            ![s].load = NoLoad]
    /\ channels' = Subscribed(channels,
                        Channel(s, "messages", live[s].load.chatId), mode)
    /\ UNCHANGED <<follows, chats, messages, tabUser, requests, acc, chat, disc>>
    /\ UNCHANGED <<reactions, reactionIds, response>>
    /\ UNCHANGED <<objects, result>>

\* loadReactions, the response of the query of the message ids: return when
\* there are none, else the query of the reactions of these messages.
LoadReactionsQuery(s) ==
    /\ live[s].rload.pc = "ids"
    /\ live' = [live EXCEPT ![s].rload =
            IF live[s].rload.messageIds = {} THEN NoReactionLoad
            ELSE [live[s].rload EXCEPT
                    !.pc = "rows",
                    !.data = SortById({r \in reactions :
                                /\ ReactionsSelectPolicy(chat[s].user, r)
                                /\ r.message_id \in live[s].rload.messageIds})]]
    /\ UNCHANGED <<follows, chats, messages, tabUser, requests, acc, chat, disc>>
    /\ UNCHANGED <<reactions, reactionIds, channels, response>>
    /\ UNCHANGED <<objects, result>>

\* loadReactions, the response of the query of the reactions:
\* setReactions(reactionsByMessage) replaces the whole map.
LoadReactionsSet(s) ==
    /\ live[s].rload.pc = "rows"
    /\ live' = [live EXCEPT ![s].reactions = live[s].rload.data,
                            ![s].rload = NoReactionLoad]
    /\ UNCHANGED <<follows, chats, messages, tabUser, requests, acc, chat, disc>>
    /\ UNCHANGED <<reactions, reactionIds, channels, response>>
    /\ UNCHANGED <<objects, result>>

\* The callbacks of the channels.  messages INSERT: [...current,
\* payload.new]; message_reactions INSERT: the reaction is appended to the
\* list of its message; DELETE: the list of its message is filtered by id.
AfterEvent(l, ch, ev) ==
    IF ch.table = "messages"
    THEN [l EXCEPT !.messages = Append(@, ev.row)]
    ELSE IF ev.eventType = "INSERT"
    THEN [l EXCEPT !.reactions = Append(@, ev.row)]
    ELSE [l EXCEPT !.reactions =
            SelectSeq(@, LAMBDA r : ~(r.message_id = ev.row.message_id
                                       /\ r.id = ev.row.id))]

\* The oldest event queued on channel i reaches its callback.
DeliverEvent(i) ==
    /\ i \in DOMAIN channels
    /\ channels[i].queue # <<>>
    /\ live' = [live EXCEPT ![channels[i].screen] =
                    AfterEvent(@, channels[i], Head(channels[i].queue))]
    /\ channels' = [channels EXCEPT ![i].queue = Tail(@)]
    /\ UNCHANGED <<follows, chats, messages, tabUser, requests, acc, chat, disc>>
    /\ UNCHANGED <<reactions, reactionIds, response>>
    /\ UNCHANGED <<objects, result>>

\* The screen is left (unmounted): its state is discarded.  No cleanup was
\* registered, so its channels stay subscribed; their callbacks set the
\* state of the unmounted instance, which has no effect (stale).
ChatLeave(s) ==
    /\ chat[s].pc = "done"
    /\ live[s].load.pc = "idle" /\ live[s].rload.pc = "idle"
    /\ ~live[s].sending
    /\ chat' = [chat EXCEPT ![s] = ChatInit]
    /\ live' = [live EXCEPT ![s] = LiveInit]
    /\ channels' = [i \in DOMAIN channels |->
                        IF channels[i].screen = s
                        THEN [channels[i] EXCEPT !.stale = TRUE, !.queue = <<>>]
                        ELSE channels[i]]
    /\ UNCHANGED <<follows, chats, messages, tabUser, requests, acc, disc>>
    /\ UNCHANGED <<reactions, reactionIds, response>>
    /\ UNCHANGED <<objects, result>>

\* ------------------------------------------------------ Chat: send a message

\* The drafts the user types, and newMessage.trim() of each: the text
\* without its leading and trailing white space.
Drafts == {"  ", "hello "}

Trim(text) ==
    CASE text = "  " -> ""
      [] text = "hello " -> "hello"
      [] OTHER -> text

\* The texts that reach the message log.
Texts == {Trim(d) : d \in Drafts} \ {""}

\* The files the user picks: name, the part of the name after its last dot,
\* and size in bytes.  50 * 1024 * 1024 is the limit of handleFileSelect.
MaxFileSize == 50 * 1024 * 1024

Files ==
    {[name |-> "photo.png", ext |-> "png", size |-> MaxFileSize],
     [name |-> "film.mp4", ext |-> "mp4", size |-> MaxFileSize + 1]}

\* The values of Date.now() at the uploads: two uploads may fall into the
\* same millisecond.
Times == {1, 2}

\* The messages that users sent (the welcome messages are the handler's).
Sent == {m \in MessageIds : MessageById(m).content # "welcome"}

\* The Chat screens whose handleSendMessage has a file to upload before it
\* inserts the message.
Uploading == {s \in ChatScreens : live[s].send.pc = "upload"}

\* The input of the draft: setNewMessage(e.target.value); the input is
\* disabled while sending or uploading.
SetNewMessage(s, text) ==
    /\ ~Loading(s) /\ chat[s].canChat
    /\ ~live[s].sending /\ ~live[s].uploading
    /\ text # live[s].newMessage
    /\ live' = [live EXCEPT ![s].newMessage = text]
    /\ UNCHANGED <<follows, chats, messages, tabUser, requests, acc, chat, disc>>
    /\ UNCHANGED <<reactions, reactionIds, channels, response>>
    /\ UNCHANGED <<objects, result>>

\* handleFileSelect, the change of the file input, which the paperclip
\* button opens unless uploading or a file is selected: a file of more than
\* 50MB is refused with a toast, any other becomes the selected file.
HandleFileSelect(s, file) ==
    /\ ~Loading(s) /\ chat[s].canChat
    /\ ~live[s].uploading /\ live[s].selectedFile = NoFile
    /\ live' = [live EXCEPT ![s] =
            IF file.size > MaxFileSize
            THEN [@ EXCEPT !.toast = "File must be less than 50MB"]
            ELSE [@ EXCEPT !.selectedFile = file]]
    /\ UNCHANGED <<follows, chats, messages, tabUser, requests, acc, chat, disc>>
    /\ UNCHANGED <<reactions, reactionIds, channels, response>>
    /\ UNCHANGED <<objects, result>>

\* handleRemoveFile, the button of the file preview.
HandleRemoveFile(s) ==
    /\ ~Loading(s) /\ chat[s].canChat
    /\ live[s].selectedFile # NoFile
    /\ live' = [live EXCEPT ![s].selectedFile = NoFile]
    /\ UNCHANGED <<follows, chats, messages, tabUser, requests, acc, chat, disc>>
    /\ UNCHANGED <<reactions, reactionIds, channels, response>>
    /\ UNCHANGED <<objects, result>>

\* Mutant of SendValid: handleSendMessage without the check of the draft.
SendValidDropped(s) == TRUE

\* !newMessage.trim() && !selectedFile, negated.
SendValid(s) ==
    Trim(live[s].newMessage) # "" \/ live[s].selectedFile # NoFile

\* Mutant of SendIdle: handleSendMessage without the check of sending.
SendIdleDropped(s) == TRUE

\* !sending: the state is set before the handler's first await, so the
\* render that handles the next submit has it.
SendIdle(s) == ~live[s].sending

\* The row handleSendMessage inserts: the trimmed draft, or the name of
\* the file when there is no text; media_url is the public URL of the
\* uploaded object, null without a file.
SendRow(s, send) ==
    [id |-> NoId, chat_id |-> chat[s].chatId, sender_id |-> chat[s].user,
     content |-> IF Trim(send.newMessage) # "" THEN Trim(send.newMessage)
                 ELSE send.selectedFile.name,
     media_url |-> send.path]

\* filePath: `${chatId}/${Date.now()}.${fileExt}`.
FilePath(s, t) ==
    [folder |-> chat[s].chatId, name |-> <<t, live[s].selectedFile.ext>>]

\* handleSendMessage, the submit of the form, which is rendered once loading
\* is false and canChat is true: return unless there is a draft or a file,
\* a chatId and no send in flight; setSending(true), setUploading(there is
\* a file), and the first request: the upload of the file, or without a
\* file the insert of the message.  The handler keeps the draft and the
\* file of the render that ran it.
HandleSendMessage(s, t) ==
    /\ ~Loading(s) /\ chat[s].canChat
    /\ SendValid(s) /\ chat[s].chatId # NoId /\ SendIdle(s)
    /\ Cardinality(Sent) + Cardinality(Uploading) < MaxSends
    /\ LET send == [pc |-> "insert", newMessage |-> live[s].newMessage,
                    selectedFile |-> live[s].selectedFile, path |-> NoUrl]
           row == SendRow(s, send)
       IN IF live[s].selectedFile # NoFile
          THEN /\ objects' = ObjectsAfterInsert(chat[s].user, FilePath(s, t))
               /\ live' = [live EXCEPT
                    ![s].sending = TRUE, ![s].uploading = TRUE,
                    ![s].toast = "",
                    ![s].send = [send EXCEPT !.pc = "upload",
                                             !.path = FilePath(s, t)],
                    ![s].sendError = ObjectsInsertError(chat[s].user, FilePath(s, t))]
               /\ UNCHANGED <<messages, channels>>
          ELSE /\ messages' = MessagesAfterInsert(chat[s].user, row)
               /\ channels' = ChannelsAfterMessage(chat[s].user, row)
               /\ live' = [live EXCEPT
                    ![s].sending = TRUE, ![s].uploading = FALSE,
                    ![s].toast = "",
                    ![s].send = send,
                    ![s].sendError = MessagesInsertError(chat[s].user, row)]
               /\ UNCHANGED objects
    /\ UNCHANGED <<follows, chats, tabUser, requests, acc, chat, disc>>
    /\ UNCHANGED <<reactions, reactionIds, response, result>>

\* handleSendMessage, the response of the upload: an upload error is thrown
\* to the catch block ('Failed to send message') and the finally block; else
\* getPublicUrl and the insert of the message with the url.
HandleSendUploaded(s) ==
    /\ live[s].send.pc = "upload"
    /\ IF live[s].sendError # ""
       THEN /\ live' = [live EXCEPT
                    ![s].sending = FALSE, ![s].uploading = FALSE,
                    ![s].send = NoSend, ![s].sendError = "",
                    ![s].toast = "error"]
            /\ UNCHANGED <<messages, channels>>
       ELSE /\ messages' = MessagesAfterInsert(chat[s].user,
                                SendRow(s, live[s].send))
            /\ channels' = ChannelsAfterMessage(chat[s].user,
                                SendRow(s, live[s].send))
            /\ live' = [live EXCEPT
                    ![s].send.pc = "insert",
                    ![s].sendError = MessagesInsertError(chat[s].user,
                                        SendRow(s, live[s].send))]
    /\ UNCHANGED <<follows, chats, tabUser, requests, acc, chat, disc>>
    /\ UNCHANGED <<reactions, reactionIds, response>>
    /\ UNCHANGED <<objects, result>>

\* handleSendMessage, the response of the insert: an error is thrown to the
\* catch block, which shows 'Failed to send message'; else the draft and
\* the selected file are cleared.  The finally block runs
\* setSending(false) and setUploading(false).
HandleSendDone(s) ==
    /\ live[s].send.pc = "insert"
    /\ live' = [live EXCEPT ![s] =
            IF live[s].sendError = ""
            THEN [@ EXCEPT !.sending = FALSE, !.uploading = FALSE,
                           !.send = NoSend, !.toast = "",
                           !.newMessage = "", !.selectedFile = NoFile]
            ELSE [@ EXCEPT !.sending = FALSE, !.uploading = FALSE,
                           !.send = NoSend, !.sendError = "",
                           !.toast = "error"]]
    /\ UNCHANGED <<follows, chats, messages, tabUser, requests, acc, chat, disc>>
    /\ UNCHANGED <<reactions, reactionIds, channels, response>>
    /\ UNCHANGED <<objects, result>>

\* ---------------------------------------------------------- Chat: reactions

\* The row handleReaction inserts.
ReactionRow(s, m, e) ==
    [id |-> NoId, message_id |-> m, user_id |-> chat[s].user, emoji |-> e]

\* reactions[messageId].find(r => r.user_id === user.id && r.emoji === emoji)
\* on the state of the screen: the places of the entries that match, and the
\* id of the first of them, which find returns.
ExistingReaction(s, m, e) ==
    {i \in DOMAIN live[s].reactions :
        /\ live[s].reactions[i].message_id = m
        /\ live[s].reactions[i].user_id = chat[s].user
        /\ live[s].reactions[i].emoji = e}

FirstExisting(s, m, e) ==
    live[s].reactions[CHOOSE i \in ExistingReaction(s, m, e) :
                        \A j \in ExistingReaction(s, m, e) : i <= j].id

\* handleReaction(messageId, emoji) on a message the screen shows: when the
\* local state holds the user's reaction with this emoji, it is deleted by
\* its id; else a row is inserted.  An error is shown as a toast.  The
\* local state changes only when the event comes back on the channel.
HandleReaction(s, m, e, old) ==
    /\ ~Loading(s) /\ chat[s].canChat
    /\ \E i \in DOMAIN live[s].messages : live[s].messages[i].id = m
    /\ IF ExistingReaction(s, m, e) # {}
       THEN /\ reactions' = ReactionsAfterDelete(chat[s].user, FirstExisting(s, m, e))
            /\ channels' = ChannelsAfterReaction("DELETE",
                    ReactionsDeleted(chat[s].user, FirstExisting(s, m, e)), old)
            /\ live' = [live EXCEPT
                    ![s].toast = "",
                    ![s].lastToggle = [message_id |-> m, emoji |-> e, id |-> NoId]]
            /\ UNCHANGED reactionIds
       ELSE /\ reactionIds < MaxReactions
            /\ reactions' = ReactionsAfterInsert(chat[s].user, ReactionRow(s, m, e))
            /\ reactionIds' = ReactionIdsAfterInsert(chat[s].user, ReactionRow(s, m, e))
            /\ channels' = ChannelsAfterReaction("INSERT",
                    reactions' \ reactions, "full")
            /\ live' = [live EXCEPT
                    ![s].toast =
                        IF ReactionsInsertError(chat[s].user, ReactionRow(s, m, e)) = ""
                        THEN "" ELSE "Failed to add reaction",
                    ![s].lastToggle = [message_id |-> m, emoji |-> e,
                        id |-> IF reactions' = reactions THEN NoId
                               ELSE reactionIds + 1]]
    /\ UNCHANGED <<follows, chats, messages, tabUser, requests, acc, chat, disc>>
    /\ UNCHANGED response
    /\ UNCHANGED <<objects, result>>

\* The property names an empty object literal inherits from
\* Object.prototype ("constructor" stands for them): counts[name] finds
\* the inherited value, which is not undefined.
PrototypeKeys == {"constructor"}

\* The texts a direct caller may store in message_reactions.emoji (TEXT NOT
\* NULL, no check): the emojis of the picker and any other string.
EmojiTexts == Emojis \cup PrototypeKeys

\* No entry: the object literal {} that getReactionCounts starts from.
NoCounts == [e \in {} |-> [count |-> 0, userReacted |-> FALSE]]

\* Mutant of CountsStep: userReacted taken from the last reaction alone.
CountsStepLastOnly(counts, reaction, viewer) ==
    IF reaction.emoji \in PrototypeKeys THEN counts
    ELSE [e \in DOMAIN counts \cup {reaction.emoji} |->
            IF e # reaction.emoji THEN counts[e]
            ELSE [count |-> (IF e \in DOMAIN counts THEN counts[e].count ELSE 0) + 1,
                  userReacted |-> reaction.user_id = viewer]]

\* The body of forEach in getReactionCounts: when counts[emoji] is falsy
\* the entry {count: 0, userReacted: false} is created; count++; and
\* userReacted = true for a reaction of the viewer.  For an inherited
\* property name the entry is not created and the writes go to the
\* inherited object, so counts gets no entry of its own.
CountsStep(counts, reaction, viewer) ==
    IF reaction.emoji \in PrototypeKeys THEN counts
    ELSE [e \in DOMAIN counts \cup {reaction.emoji} |->
            IF e # reaction.emoji THEN counts[e]
            ELSE [count |-> (IF e \in DOMAIN counts THEN counts[e].count ELSE 0) + 1,
                  userReacted |->
                    \/ (e \in DOMAIN counts /\ counts[e].userReacted)
                    \/ reaction.user_id = viewer]]

RECURSIVE CountsAfter(_, _, _)
CountsAfter(list, counts, viewer) ==
    IF list = <<>> THEN counts
    ELSE CountsAfter(Tail(list), CountsStep(counts, Head(list), viewer), viewer)

\* reactions[messageId] || [] of screen s.
MessageReactions(s, m) ==
    SelectSeq(live[s].reactions, LAMBDA r : r.message_id = m)

\* getReactionCounts(messageId) in the render of screen s: the own entries
\* of counts, which the render lists with Object.entries.
GetReactionCounts(s, m) ==
    CountsAfter(MessageReactions(s, m), NoCounts, chat[s].user)

\* ------------------------------------------------------------ specification

Init ==
    /\ follows = {}
    /\ chats = {}
    /\ messages = <<>>
    /\ tabUser = [t \in Tabs |-> NoUser]
    /\ requests = [t \in Tabs |-> {}]
    /\ acc = [t \in Tabs |-> AccInit]
    /\ chat = [s \in ChatScreens |-> ChatInit]
    /\ disc = [d \in Discovers |-> DiscInit]
    /\ reactions = {}
    /\ reactionIds = 0
    /\ channels = <<>>
    /\ live = [s \in ChatScreens |-> LiveInit]
    /\ response = ""
    /\ objects = {}
    /\ result = NoResult

\* The clients of Spec.  User 1 browses Discover, user 2 has the Requests
\* screen open in two tabs, and each of the two has the chat with the other
\* open: Chat screen s belongs to user s and its route names the other one.
\* User 3 is a profile that takes no action.
DiscoverUsers == {1}
RequestsUsers == {2}
ChatRoute(s) == IF s = 1 THEN 2 ELSE 1

Next ==
    \/ \E d \in Discovers, u \in DiscoverUsers : DiscoverMount(d, u)
    \/ \E d \in Discovers : FetchFollowStatusSet(d)
    \/ \E d \in Discovers, p \in Users : HandleFollow(d, p)
    \/ \E d \in Discovers : HandleFollowSet(d)
    \/ \E t \in Tabs, u \in RequestsUsers : RequestsMount(t, u)
    \/ \E t \in Tabs : \E req \in requests[t] :
            acc[t].rej.pc = "idle" /\ HandleAcceptUpdate(t, req)
    \/ \E t \in Tabs : HandleAcceptLookup(t)
    \/ \E t \in Tabs : HandleAcceptInsert(t)
    \/ \E t \in Tabs : HandleAcceptMessage(t)
    \/ \E t \in Tabs : HandleAcceptDone(t)
    \/ \E t \in Tabs : \E req \in requests[t] :
            acc[t].pc = "idle" /\ HandleRejectUpdate(t, req)
    \/ \E t \in Tabs : HandleRejectDone(t)
    \/ \E s \in ChatScreens : ChatOpen(s, s, ChatRoute(s))
    \/ \E s \in ChatScreens : InitChatFollowCheck(s)
    \/ \E s \in ChatScreens : InitChatLookup(s)
    \/ \E s \in ChatScreens : InitChatInsert(s)

Spec == Init /\ [][Next]_vars

\* The clients of SpecFollow, the life of the follow rows: users 1 and 3
\* browse Discover (one screen, either user), user 2 has the Requests screen
\* open in two tabs, and no Chat screen is open (a Chat screen writes no
\* follow row).
FollowDiscoverUsers == {1, 3}

NextFollow ==
    \/ \E d \in Discovers, u \in FollowDiscoverUsers : DiscoverMount(d, u)
    \/ \E d \in Discovers : FetchFollowStatusSet(d)
    \/ \E d \in Discovers, p \in Users : HandleFollow(d, p)
    \/ \E d \in Discovers : HandleFollowSet(d)
    \/ \E t \in Tabs, u \in RequestsUsers : RequestsMount(t, u)
    \/ \E t \in Tabs : \E req \in requests[t] :
            acc[t].rej.pc = "idle" /\ HandleAcceptUpdate(t, req)
    \/ \E t \in Tabs : HandleAcceptLookup(t)
    \/ \E t \in Tabs : HandleAcceptInsert(t)
    \/ \E t \in Tabs : HandleAcceptMessage(t)
    \/ \E t \in Tabs : HandleAcceptDone(t)
    \/ \E t \in Tabs : \E req \in requests[t] :
            acc[t].pc = "idle" /\ HandleRejectUpdate(t, req)
    \/ \E t \in Tabs : HandleRejectDone(t)

SpecFollow == Init /\ [][NextFollow]_vars

\* ------------------------------------------------------- direct API clients

\* Any holder of the project's public key, signed in as uid or not signed in
\* (NoUser), can send requests to the tables directly: the constraints and
\* the row-level-security policies are all that stands between such a
\* request and the rows.
Callers == Users \cup {NoUser}

\* INSERT INTO follows (follower_id, following_id, status) by uid.
ApiInsertFollow(uid, follower, following, st) ==
    /\ Cardinality(follows) < MaxFollows
    /\ follows' = FollowsAfterInsert(uid,
            [id |-> NoId, follower_id |-> follower, following_id |-> following,
             status |-> st])
    /\ UNCHANGED <<chats, messages, tabUser, requests, acc, chat, disc>>
    /\ UNCHANGED liveVars

\* UPDATE follows SET status = st WHERE id = rid by uid.
ApiUpdateFollow(uid, rid, st) ==
    /\ follows' = FollowsAfterUpdate(uid, rid, st)
    /\ UNCHANGED <<chats, messages, tabUser, requests, acc, chat, disc>>
    /\ UNCHANGED liveVars

\* INSERT INTO chats (user1_id, user2_id) by uid.
ApiInsertChat(uid, u1, u2) ==
    /\ chats' = ChatsAfterInsert(uid, ChatRow(<<u1, u2>>))
    /\ UNCHANGED <<follows, messages, tabUser, requests, acc, chat, disc>>
    /\ UNCHANGED liveVars

\* INSERT INTO messages (chat_id, sender_id, content) by uid.
ApiInsertMessage(uid, cid, sender, text) ==
    /\ Cardinality(Sent) + Cardinality(Uploading) < MaxSends
    /\ messages' = MessagesAfterInsert(uid,
            [id |-> NoId, chat_id |-> cid, sender_id |-> sender, content |-> text,
             media_url |-> NoUrl])
    /\ channels' = ChannelsAfterMessage(uid,
            [id |-> NoId, chat_id |-> cid, sender_id |-> sender, content |-> text,
             media_url |-> NoUrl])
    /\ response' = MessagesInsertError(uid,
            [id |-> NoId, chat_id |-> cid, sender_id |-> sender, content |-> text,
             media_url |-> NoUrl])
    /\ UNCHANGED <<follows, chats, tabUser, requests, acc, chat, disc>>
    /\ UNCHANGED <<reactions, reactionIds, live>>
    /\ UNCHANGED <<objects, result>>

\* INSERT INTO message_reactions (message_id, user_id, emoji) by uid, from
\* another device of the user.
ApiInsertReaction(uid, m, user, e) ==
    /\ reactionIds < MaxReactions
    /\ reactions' = ReactionsAfterInsert(uid,
            [id |-> NoId, message_id |-> m, user_id |-> user, emoji |-> e])
    /\ reactionIds' = ReactionIdsAfterInsert(uid,
            [id |-> NoId, message_id |-> m, user_id |-> user, emoji |-> e])
    /\ channels' = ChannelsAfterReaction("INSERT", reactions' \ reactions, "full")
    /\ response' = ReactionsInsertError(uid,
            [id |-> NoId, message_id |-> m, user_id |-> user, emoji |-> e])
    /\ UNCHANGED <<follows, chats, messages, tabUser, requests, acc, chat, disc>>
    /\ UNCHANGED live
    /\ UNCHANGED <<objects, result>>

\* DELETE FROM message_reactions WHERE id = rid by uid.
ApiDeleteReaction(uid, rid, old) ==
    /\ \E r \in reactions : r.id = rid
    /\ reactions' = ReactionsAfterDelete(uid, rid)
    /\ channels' = ChannelsAfterReaction("DELETE", ReactionsDeleted(uid, rid), old)
    /\ response' = ""
    /\ UNCHANGED <<follows, chats, messages, tabUser, requests, acc, chat, disc>>
    /\ UNCHANGED <<reactionIds, live>>
    /\ UNCHANGED <<objects, result>>

\* upload of an object to chat-files by uid.
ApiUploadObject(uid, obj) ==
    /\ Cardinality(objects) < MaxObjects
    /\ objects' = ObjectsAfterInsert(uid, obj)
    /\ response' = ObjectsInsertError(uid, obj)
    /\ UNCHANGED <<follows, chats, messages, tabUser, requests, acc, chat, disc>>
    /\ UNCHANGED <<reactions, reactionIds, channels, live, result>>

\* remove of an object of chat-files by uid.
ApiDeleteObject(uid, obj) ==
    /\ obj \in objects
    /\ objects' = ObjectsAfterDelete(uid, obj)
    /\ response' = ""
    /\ UNCHANGED <<follows, chats, messages, tabUser, requests, acc, chat, disc>>
    /\ UNCHANGED <<reactions, reactionIds, channels, live, result>>

\* GET of an object of chat-files by uid, under the url that media_url holds.
ApiReadObject(uid, obj) ==
    /\ result' = [caller |-> uid, table |-> "objects",
                  rows |-> {o \in {obj} : ObjectsRead(uid, o)}]
    /\ result' # result
    /\ UNCHANGED <<follows, chats, messages, tabUser, requests, acc, chat, disc>>
    /\ UNCHANGED <<reactions, reactionIds, channels, live, response, objects>>

\* The tables a caller reads, and SELECT * FROM the table by uid: the rows
\* the table's select policy shows.
Tables == {"chats", "messages", "message_reactions"}

ApiSelect(uid, table) ==
    /\ result' = [caller |-> uid, table |-> table,
                  rows |-> CASE table = "chats" ->
                                {c \in chats : ChatsSelectPolicy(uid, c)}
                             [] table = "messages" ->
                                {MessageById(m) : m \in {n \in MessageIds :
                                    MessagesSelectPolicy(uid, MessageById(n))}}
                             [] table = "message_reactions" ->
                                {r \in reactions : ReactionsSelectPolicy(uid, r)}]
    /\ result' # result
    /\ UNCHANGED <<follows, chats, messages, tabUser, requests, acc, chat, disc>>
    /\ UNCHANGED <<reactions, reactionIds, channels, live, response, objects>>

\* The clients of SpecApi: the direct callers and one Chat screen, opened
\* by user 1 or 2 for any route.  The follow rows the callers try to insert
\* are those between users 1 and 2, in both directions, and one from a
\* third user to user 2, each with the status handleFollow sends.
ApiChatScreens == {1}
ApiChatUsers == {1, 2}
ApiFollowPairs == {<<1, 2>>, <<2, 1>>, <<3, 2>>}

NextApi ==
    \/ \E uid \in Callers, fg \in ApiFollowPairs :
            ApiInsertFollow(uid, fg[1], fg[2], "pending")
    \/ \E uid \in Callers, r \in follows, st \in Statuses :
            ApiUpdateFollow(uid, r.id, st)
    \/ \E uid \in Callers, u1 \in Users, u2 \in Users : ApiInsertChat(uid, u1, u2)
    \/ \E s \in ApiChatScreens, u \in ApiChatUsers, o \in Users : ChatOpen(s, u, o)
    \/ \E s \in ApiChatScreens : InitChatFollowCheck(s)
    \/ \E s \in ApiChatScreens : InitChatLookup(s)
    \/ \E s \in ApiChatScreens : InitChatInsert(s)

SpecApi == Init /\ [][NextApi]_vars

\* The clients of SpecSend, the writes to the message log: user 1 asks to
\* follow user 2, who decides (and may decide again) through the API; user 1
\* has the chat with user 2 open and sends from it; every caller tries to
\* insert messages into the chats that exist, under every sender_id.
SendFollowPairs == {<<1, 2>>}
SendChatUsers == {1}
SendChatRoutes == {2}

NextSend ==
    \/ \E fg \in SendFollowPairs : ApiInsertFollow(fg[1], fg[1], fg[2], "pending")
    \/ \E r \in follows, st \in Statuses : ApiUpdateFollow(r.following_id, r.id, st)
    \/ \E s \in ApiChatScreens, u \in SendChatUsers, o \in SendChatRoutes :
            ChatOpen(s, u, o)
    \/ \E s \in ApiChatScreens : InitChatFollowCheck(s)
    \/ \E s \in ApiChatScreens : InitChatLookup(s)
    \/ \E s \in ApiChatScreens : InitChatInsert(s)
    \/ \E s \in ApiChatScreens, text \in Drafts : SetNewMessage(s, text)
    \/ \E s \in ApiChatScreens, t \in Times : HandleSendMessage(s, t)
    \/ \E s \in ApiChatScreens : HandleSendDone(s)
    \/ \E uid \in Callers, c \in chats, sender \in Users, text \in Texts :
            ApiInsertMessage(uid, c.id, sender, text)

SpecSend == Init /\ [][NextSend]_vars

\* ------------------------------------------------------- the live chat screen

\* The state SpecLive starts in: users 1 and 3 asked to follow user 2, who
\* accepted both requests on the Requests screen, which created the two
\* chats and their welcome messages.  No screen is open.
LiveFollows ==
    {[id |-> 1, follower_id |-> 1, following_id |-> 2, status |-> "accepted"],
     [id |-> 2, follower_id |-> 3, following_id |-> 2, status |-> "accepted"]}
LiveChats ==
    {[id |-> 1, user1_id |-> 1, user2_id |-> 2],
     [id |-> 2, user1_id |-> 2, user2_id |-> 3]}
LiveMessages ==
    <<[id |-> 1, chat_id |-> 1, sender_id |-> 2, content |-> "welcome",
       media_url |-> NoUrl],
      [id |-> 2, chat_id |-> 2, sender_id |-> 2, content |-> "welcome",
       media_url |-> NoUrl]>>

InitLive ==
    /\ follows = LiveFollows
    /\ chats = LiveChats
    /\ messages = LiveMessages
    /\ tabUser = [t \in Tabs |-> NoUser]
    /\ requests = [t \in Tabs |-> {}]
    /\ acc = [t \in Tabs |-> AccInit]
    /\ chat = [s \in ChatScreens |-> ChatInit]
    /\ disc = [d \in Discovers |-> DiscInit]
    /\ reactions = {}
    /\ reactionIds = 0
    /\ channels = <<>>
    /\ live = [s \in ChatScreens |-> LiveInit]
    /\ response = ""
    /\ objects = {}
    /\ result = NoResult

\* The clients of SpecLive: user 2 has one Chat screen, opened for user 1
\* or user 3, changes its route between the two and leaves it; the screen
\* sends messages, and users 1 and 3 send messages into their chat with
\* user 2 from elsewhere.  Both chats exist, so initializeChat never
\* inserts one.
LiveChatScreens == {1}
LiveChatUsers == {2}
LiveChatRoutes == {1, 3}

\* The effect runs with the render that follows setChatId, before the
\* client handles another event and before its user acts again.
NoEffectPending == \A s \in ChatScreens : ~EffectPending(s)

NextLive ==
    \/ \E s \in LiveChatScreens, u \in LiveChatUsers, o \in LiveChatRoutes :
            /\ NoEffectPending
            /\ chat[s].pc = "closed" /\ Len(channels) + 2 <= MaxChannels
            /\ ChatOpen(s, u, o)
    \/ \E s \in LiveChatScreens, o \in LiveChatRoutes :
            NoEffectPending /\ ChatRouteChange(s, o)
    \/ \E s \in LiveChatScreens : NoEffectPending /\ InitChatFollowCheck(s)
    \/ \E s \in LiveChatScreens : NoEffectPending /\ InitChatLookup(s)
    \/ \E s \in LiveChatScreens, mode \in SubscribeModes : ChatIdEffect(s, mode)
    \/ \E s \in LiveChatScreens, mode \in SubscribeModes :
            NoEffectPending /\ SubscribeToMessages(s, mode)
    \/ \E s \in LiveChatScreens : NoEffectPending /\ LoadReactionsQuery(s)
    \/ \E s \in LiveChatScreens : NoEffectPending /\ LoadReactionsSet(s)
    \/ \E i \in DOMAIN channels : NoEffectPending /\ DeliverEvent(i)
    \/ \E c \in chats, text \in Texts : \E uid \in Pair(c) \ LiveChatUsers :
            NoEffectPending /\ ApiInsertMessage(uid, c.id, uid, text)
    \/ \E s \in LiveChatScreens : NoEffectPending /\ ChatLeave(s)

SpecLive == InitLive /\ [][NextLive]_vars

\* The clients of SpecRequests: users 1 and 3 have asked to follow user 2
\* (two pending rows), who has one Requests tab open and clicks Accept and
\* Reject without waiting for the call before to end.  In Spec and
\* SpecFollow the user of a tab waits.
RequestsFollows ==
    {[id |-> 1, follower_id |-> 1, following_id |-> 2, status |-> "pending"],
     [id |-> 2, follower_id |-> 3, following_id |-> 2, status |-> "pending"]}

InitRequests ==
    /\ follows = RequestsFollows
    /\ chats = {}
    /\ messages = <<>>
    /\ tabUser = [t \in Tabs |-> NoUser]
    /\ requests = [t \in Tabs |-> {}]
    /\ acc = [t \in Tabs |-> AccInit]
    /\ chat = [s \in ChatScreens |-> ChatInit]
    /\ disc = [d \in Discovers |-> DiscInit]
    /\ reactions = {}
    /\ reactionIds = 0
    /\ channels = <<>>
    /\ live = [s \in ChatScreens |-> LiveInit]
    /\ response = ""
    /\ objects = {}
    /\ result = NoResult

RequestsTabs == {1}

NextRequests ==
    \/ \E t \in RequestsTabs, u \in RequestsUsers : RequestsMount(t, u)
    \/ \E t \in RequestsTabs : \E req \in requests[t] : HandleAcceptUpdate(t, req)
    \/ \E t \in RequestsTabs : HandleAcceptLookup(t)
    \/ \E t \in RequestsTabs : HandleAcceptInsert(t)
    \/ \E t \in RequestsTabs : HandleAcceptMessage(t)
    \/ \E t \in RequestsTabs : HandleAcceptDone(t)
    \/ \E t \in RequestsTabs : \E req \in requests[t] : HandleRejectUpdate(t, req)
    \/ \E t \in RequestsTabs : HandleRejectDone(t)

SpecRequests == InitRequests /\ [][NextRequests]_vars

\* The clients of SpecReact, which starts as SpecLive does: one Chat screen
\* of user 2 on the route /chat/1, and direct callers (another device of
\* user 2, and user 1) that insert reactions in the name of user 2 on the
\* welcome message of the chat and delete reactions.  The screen stays open.
ReactChatScreens == {1}
ReactChatUsers == {2}
ReactChatRoutes == {1}
ReactCallers == {1, 2}
ReactMessages == {1}

NextReact ==
    \/ \E s \in ReactChatScreens, u \in ReactChatUsers, o \in ReactChatRoutes :
            /\ NoEffectPending
            /\ chat[s].pc = "closed" /\ Len(channels) + 2 <= MaxChannels
            /\ ChatOpen(s, u, o)
    \/ \E s \in ReactChatScreens : NoEffectPending /\ InitChatFollowCheck(s)
    \/ \E s \in ReactChatScreens : NoEffectPending /\ InitChatLookup(s)
    \/ \E s \in ReactChatScreens, mode \in SubscribeModes : ChatIdEffect(s, mode)
    \/ \E s \in ReactChatScreens, mode \in SubscribeModes :
            NoEffectPending /\ SubscribeToMessages(s, mode)
    \/ \E s \in ReactChatScreens : NoEffectPending /\ LoadReactionsQuery(s)
    \/ \E s \in ReactChatScreens : NoEffectPending /\ LoadReactionsSet(s)
    \/ \E i \in DOMAIN channels : NoEffectPending /\ DeliverEvent(i)
    \/ \E s \in ReactChatScreens, m \in ReactMessages, e \in Emojis,
          old \in OldRecords :
            NoEffectPending /\ HandleReaction(s, m, e, old)
    \/ \E uid \in ReactCallers, m \in ReactMessages, user \in ReactChatUsers,
          e \in Emojis :
            NoEffectPending /\ ApiInsertReaction(uid, m, user, e)
    \/ \E uid \in ReactCallers, rid \in 1..reactionIds, old \in OldRecords :
            NoEffectPending /\ ApiDeleteReaction(uid, rid, old)

SpecReact == InitLive /\ [][NextReact]_vars

\* The clients of SpecFile, which starts as SpecLive does: the Chat screen
\* of SpecReact (user 2 on the route /chat/1), whose user types drafts, picks files and
\* sends; and direct callers of the storage (user 1, who is in chat 1 and
\* not in chat 2, and a caller who is not signed in), who upload to the
\* folders of the two chats, read and delete.
FileCallers == {NoUser, 1}
FileObjects == {[folder |-> c, name |-> <<1, "png">>] : c \in {1, 2}}

NextFile ==
    \/ \E s \in ReactChatScreens, u \in ReactChatUsers, o \in ReactChatRoutes :
            chat[s].pc = "closed" /\ ChatOpen(s, u, o)
    \/ \E s \in ReactChatScreens : InitChatFollowCheck(s)
    \/ \E s \in ReactChatScreens : InitChatLookup(s)
    \/ \E s \in ReactChatScreens, text \in Drafts : SetNewMessage(s, text)
    \/ \E s \in ReactChatScreens, file \in Files : HandleFileSelect(s, file)
    \/ \E s \in ReactChatScreens : HandleRemoveFile(s)
    \/ \E s \in ReactChatScreens, t \in Times : HandleSendMessage(s, t)
    \/ \E s \in ReactChatScreens : HandleSendUploaded(s)
    \/ \E s \in ReactChatScreens : HandleSendDone(s)
    \/ \E uid \in FileCallers, obj \in FileObjects : ApiUploadObject(uid, obj)
    \/ \E uid \in FileCallers, obj \in objects : ApiDeleteObject(uid, obj)
    \/ \E uid \in FileCallers, obj \in objects : ApiReadObject(uid, obj)

SpecFile == InitLive /\ [][NextFile]_vars

\* The clients of SpecCounts, which starts as SpecLive does: the Chat screen
\* of SpecReact (user 2 on the route /chat/1), which stays open and renders the reaction
\* counts, and the two participants of chat 1, who react to its welcome
\* message through the API, with an emoji of the picker or another text.
CountsEmojis == {"heart"} \cup PrototypeKeys

NextCounts ==
    \/ \E s \in ReactChatScreens, u \in ReactChatUsers, o \in ReactChatRoutes :
            /\ NoEffectPending
            /\ chat[s].pc = "closed" /\ Len(channels) + 2 <= MaxChannels
            /\ ChatOpen(s, u, o)
    \/ \E s \in ReactChatScreens : NoEffectPending /\ InitChatFollowCheck(s)
    \/ \E s \in ReactChatScreens : NoEffectPending /\ InitChatLookup(s)
    \/ \E s \in ReactChatScreens, mode \in SubscribeModes : ChatIdEffect(s, mode)
    \/ \E s \in ReactChatScreens, mode \in SubscribeModes :
            NoEffectPending /\ SubscribeToMessages(s, mode)
    \/ \E s \in ReactChatScreens : NoEffectPending /\ LoadReactionsQuery(s)
    \/ \E s \in ReactChatScreens : NoEffectPending /\ LoadReactionsSet(s)
    \/ \E i \in DOMAIN channels : NoEffectPending /\ DeliverEvent(i)
    \/ \E uid \in ReactCallers, m \in ReactMessages, e \in CountsEmojis :
            NoEffectPending /\ ApiInsertReaction(uid, m, uid, e)

SpecCounts == InitLive /\ [][NextCounts]_vars

\* The clients of SpecRead, which starts as SpecLive does: the users react
\* to the welcome messages of the two chats, and every caller reads the
\* three tables.
ReadEmojis == {"heart"}

NextRead ==
    \/ \E uid \in Users, m \in MessageIds, e \in ReadEmojis :
            ApiInsertReaction(uid, m, uid, e)
    \/ \E uid \in Callers, table \in Tables : ApiSelect(uid, table)

SpecRead == InitLive /\ [][NextRead]_vars

\* ------------------------------------------------------------------- claims

\* The clients of SpecDeliver, which starts as SpecLive does: the Chat screen
\* of SpecReact (user 2 on the route /chat/1), which stays open, and users 1 and 3,
\* who send messages into their chat with user 2 from elsewhere.  The responses of the screen's
\* queries arrive, its effects run, and the events queued on its channels
\* are delivered (weak fairness); nobody has to open the screen or to send.
DeliverSenders == {1, 3}

NextDeliver ==
    \/ \E s \in ReactChatScreens, u \in ReactChatUsers, o \in ReactChatRoutes :
            /\ NoEffectPending
            /\ chat[s].pc = "closed" /\ Len(channels) + 2 <= MaxChannels
            /\ ChatOpen(s, u, o)
    \/ \E s \in ReactChatScreens : NoEffectPending /\ InitChatFollowCheck(s)
    \/ \E s \in ReactChatScreens : NoEffectPending /\ InitChatLookup(s)
    \/ \E s \in ReactChatScreens, mode \in SubscribeModes : ChatIdEffect(s, mode)
    \/ \E s \in ReactChatScreens, mode \in SubscribeModes :
            NoEffectPending /\ SubscribeToMessages(s, mode)
    \/ \E s \in ReactChatScreens : NoEffectPending /\ LoadReactionsQuery(s)
    \/ \E s \in ReactChatScreens : NoEffectPending /\ LoadReactionsSet(s)
    \/ \E i \in DOMAIN channels : NoEffectPending /\ DeliverEvent(i)
    \/ \E c \in chats, text \in Texts : \E uid \in Pair(c) \cap DeliverSenders :
            NoEffectPending /\ ApiInsertMessage(uid, c.id, uid, text)

DeliverFairness ==
    /\ \A s \in ReactChatScreens :
            /\ WF_vars(NoEffectPending /\ InitChatFollowCheck(s))
            /\ WF_vars(NoEffectPending /\ InitChatLookup(s))
            /\ WF_vars(\E mode \in SubscribeModes : ChatIdEffect(s, mode))
            /\ WF_vars(\E mode \in SubscribeModes :
                            NoEffectPending /\ SubscribeToMessages(s, mode))
            /\ WF_vars(NoEffectPending /\ LoadReactionsQuery(s))
            /\ WF_vars(NoEffectPending /\ LoadReactionsSet(s))
    /\ WF_vars(\E i \in DOMAIN channels : NoEffectPending /\ DeliverEvent(i))

SpecDeliver == InitLive /\ [][NextDeliver]_vars /\ DeliverFairness

\* C1: in every reachable state the chats table holds at most one row for
\* an unordered pair of users, however the lookups and inserts of the chat
\* screens of both users and of the accept handler interleave.
C1_OneChatPerPair ==
    \A c1 \in chats, c2 \in chats : Pair(c1) = Pair(c2) => c1 = c2

\* Witness of C1: three get-or-create calls for the pair {1,2} found no row;
\* one has inserted it while the other two are about to insert.
C1_Witness ==
    /\ Cardinality(chats) = 1
    /\ chat[2].pc = "done" /\ chat[2].chatId # NoId
    /\ chat[1].pc = "insert"
    /\ \E t \in Tabs : acc[t].pc = "insert" /\ acc[t].sortedIds = <<1, 2>>

\* The id of the chats row of the users x and y, NoId when there is none.
ChatIdOf(rows, x, y) ==
    IF \E c \in rows : Pair(c) = {x, y}
    THEN (CHOOSE c \in rows : Pair(c) = {x, y}).id ELSE NoId

\* C2 as claimed: a get-or-create call whose insert has been answered holds
\* the id of the pair's row, whether its own insert created the row or was
\* rejected by the uniqueness constraint; the chat screen shows no error and
\* the accept handler goes on to the welcome message.
C2_ConflictIsReread ==
    [][/\ \A s \in ChatScreens :
            (chat[s].pc = "insert" /\ chat'[s].pc # "insert")
                => /\ chat'[s].chatId # NoId
                   /\ chat'[s].chatId = ChatIdOf(chats', chat[s].user, chat[s].userId)
                   /\ chat'[s].toast # "error"
       /\ \A t \in Tabs :
            (acc[t].pc = "insert" /\ acc'[t].pc # "insert")
                => /\ acc'[t].pc = "message"
                   /\ acc'[t].chatId = ChatIdOf(chats', tabUser[t], acc[t].followerId)
      ]_vars

\* C3: every chats row stores its pair in canonical order, lower id first
\* (so no row pairs a user with itself), and the key a get-or-create call
\* uses for its lookup and its insert is the canonical order of its two
\* users: calls made as (a,b) and as (b,a) use the same key.
C3_CanonicalPair ==
    /\ \A c \in chats : c.user1_id < c.user2_id
    /\ \A s \in ChatScreens :
            chat[s].pc \in {"lookup", "insert"}
                => /\ chat[s].sortedIds[1] <= chat[s].sortedIds[2]
                   /\ {chat[s].sortedIds[1], chat[s].sortedIds[2]}
                          = {chat[s].user, chat[s].userId}
    /\ \A t \in Tabs :
            acc[t].pc \in {"lookup", "insert"}
                => /\ acc[t].sortedIds[1] <= acc[t].sortedIds[2]
                   /\ {acc[t].sortedIds[1], acc[t].sortedIds[2]}
                          = {tabUser[t], acc[t].followerId}

\* Witness of C3: the chat screen of user 2, opened for user 1, created the
\* row of the pair, which is stored as (1, 2).
C3_Witness ==
    \E s \in ChatScreens :
        /\ chat[s].user = 2 /\ chat[s].userId = 1
        /\ chat[s].pc = "done" /\ chat[s].chatId # NoId
        /\ \E c \in chats : /\ c.id = chat[s].chatId
                            /\ c.user1_id = 1 /\ c.user2_id = 2

\* An accepted follow row exists between the users x and y.
AcceptedEdge(x, y) ==
    \E r \in follows : /\ r.status = "accepted"
                       /\ \/ (r.follower_id = x /\ r.following_id = y)
                          \/ (r.follower_id = y /\ r.following_id = x)

\* C4 as claimed: in every reachable state each chats row belongs to a pair
\* of users between whom an accepted follow row exists in some direction.
C4_ChatImpliesAccepted ==
    \A c \in chats : AcceptedEdge(c.user1_id, c.user2_id)

\* C5: over any sequence of follow, accept and reject operations no step
\* changes the status of a follow row from accepted or rejected to pending
\* (pending -> accepted and pending -> rejected are reached: C5_Witness).
C5_NeverBackToPending ==
    [][\A r \in follows : \A r2 \in follows' :
            (r2.id = r.id /\ r.status \in {"accepted", "rejected"})
                => r2.status # "pending"]_vars

\* Witness of C5: of two rows inserted as pending, one was accepted and the
\* other was rejected without ever having been accepted (no accept handler
\* is running and no chat exists for its pair).
C5_Witness ==
    /\ \A t \in Tabs : acc[t].pc = "idle"
    /\ \E r1 \in follows, r2 \in follows :
        /\ r1.status = "accepted" /\ r2.status = "rejected"
        /\ ~\E c \in chats : Pair(c) = {r2.follower_id, r2.following_id}

\* C6 as claimed: accepting or rejecting a request whose row is missing or
\* no longer pending leaves the follows table as it is and ends the handler
\* at once with the error toast, before any chat or welcome message.
C6_ResolvedIsNoOp ==
    [][\A t \in Tabs : \A req \in requests[t] :
            (/\ HandleAcceptUpdate(t, req) \/ HandleRejectUpdate(t, req)
             /\ ~\E r \in follows : r.id = req.id /\ r.status = "pending")
                => /\ follows' = follows
                   /\ acc'[t].pc = "idle"
                   /\ acc'[t].toast = "error"]_vars

FollowIds(rows) == {r.id : r \in rows}

\* C7: a follow row is created only by the caller who is its follower, and
\* its status is changed only by the caller who is its followee; an update
\* sent by anyone else (the follower, a third user, nobody) changes no row.
C7_FollowerCreatesFolloweeDecides ==
    [][follows' # follows =>
        \A uid \in Callers :
            /\ \A fg \in ApiFollowPairs :
                    ApiInsertFollow(uid, fg[1], fg[2], "pending")
                        => \A r \in follows' :
                                r.id \notin FollowIds(follows) => r.follower_id = uid
            /\ \A x \in follows : \A st \in Statuses :
                    ApiUpdateFollow(uid, x.id, st)
                        => /\ uid = x.following_id
                           /\ \A r \in follows : \A r2 \in follows' :
                                (r2.id = r.id /\ r2.status # r.status)
                                    => r.following_id = uid
      ]_vars

\* Witness of C7: two rows were created and the status of both was changed.
C7_Witness ==
    \E r1 \in follows, r2 \in follows :
        r1.status = "accepted" /\ r2.status = "rejected"
            /\ r1.following_id # r2.following_id

\* C8: at most one follow row exists per ordered (follower, followee) pair;
\* handleFollow fails with the error toast and changes nothing when a row of
\* that pair exists, whatever its status, and otherwise adds exactly one row,
\* with status pending.
C8_RequestFollow ==
    /\ [](\A r1 \in follows, r2 \in follows :
            (r1.follower_id = r2.follower_id /\ r1.following_id = r2.following_id)
                => r1 = r2)
    /\ [][\A d \in Discovers : \A p \in Users :
            HandleFollow(d, p) =>
                IF \E r \in follows : r.follower_id = disc[d].user /\ r.following_id = p
                THEN follows' = follows /\ disc'[d].toast = "error"
                ELSE \E r \in follows' :
                        /\ r \notin follows
                        /\ follows' = follows \cup {r}
                        /\ r.follower_id = disc[d].user /\ r.following_id = p
                        /\ r.status = "pending"
                        /\ disc'[d].toast # "error"
         ]_vars

\* Witness of C8: a follow request failed on a row that is no longer
\* pending, which is still there.
C8_Witness ==
    \E d \in Discovers :
        /\ disc[d].toast = "error"
        /\ \E r \in follows : r.follower_id = disc[d].user /\ r.status # "pending"

\* C9: the connection check of the chat screen of user a for user b yields
\* true exactly when follows holds an accepted row from a to b or from b to
\* a; pending and rejected rows and rows with a third user do not count.
C9_ConnectionCheck ==
    [][\A s \in ChatScreens :
            (chat[s].pc = "follow" /\ chat'[s].pc # "follow")
                => (chat'[s].canChat <=> AcceptedEdge(chat[s].user, chat[s].userId))
      ]_vars

\* Witness of C9: user 1's screen for user 2 found the two connected through
\* the row from 2 to 1 alone.
C9_Witness ==
    \E s \in ChatScreens :
        /\ chat[s].user = 1 /\ chat[s].userId = 2 /\ chat[s].canChat
        /\ chat[s].pc = "lookup"
        /\ \E r \in follows : r.follower_id = 2 /\ r.following_id = 1
                              /\ r.status = "accepted"
        /\ ~\E r \in follows : r.follower_id = 1 /\ r.following_id = 2

\* C10 as claimed: once an accepted row exists between a and b the connection
\* check stays true, whatever follow, accept and reject operations follow.
C10_ConnectedForGood ==
    [][\A a \in Users, b \in Users :
            IsConnected(a, b) => IsConnected(a, b)']_vars

\* The other participant of chat row c.
OtherParticipant(c, u) == IF c.user1_id = u THEN c.user2_id ELSE c.user1_id

\* C11 as claimed: a step appends a row to the message log only if, in the
\* state of the write, the sender is a participant of the row's chat and an
\* accepted follow row exists between the sender and the other participant.
C11_SendNeedsConnection ==
    [][Len(messages') > Len(messages) =>
        LET m == messages'[Len(messages')] IN
        \E c \in chats :
            /\ c.id = m.chat_id
            /\ m.sender_id \in Pair(c)
            /\ IsConnected(m.sender_id, OtherParticipant(c, m.sender_id))
      ]_vars

\* C12: a direct insert into messages by a caller who is not signed in, or
\* is not one of the two participants of the chat, or names another user as
\* sender_id, is answered with the authorization error 42501 and leaves the
\* message log as it is.
C12_ForeignSendRejected ==
    [][\A uid \in Callers, c \in chats, sender \in Users, text \in Texts :
            (/\ ApiInsertMessage(uid, c.id, sender, text)
             /\ (uid = NoUser \/ uid \notin Pair(c) \/ sender # uid))
                => /\ response' = "42501"
                   /\ messages' = messages
      ]_vars

\* Witness of C12: the log holds a message of a participant, and the last
\* direct insert was refused.
C12_Witness ==
    /\ response = "42501"
    /\ \E m \in MessageIds : \E c \in chats :
            c.id = MessageById(m).chat_id /\ MessageById(m).sender_id \in Pair(c)

\* The welcome messages of user u in chat row c.
WelcomesOf(log, c, u) ==
    {m \in DOMAIN log : /\ log[m].chat_id = c.id
                         /\ log[m].sender_id = u
                         /\ log[m].content = "welcome"}

\* C13 as claimed: when handleAccept, called on a request that was pending,
\* reports success, the follow row is accepted, a chat of the pair exists
\* and that chat holds a welcome message sent by the accepting user.
C13_AcceptSucceeded ==
    [][\A t \in Tabs :
            (HandleAcceptDone(t) /\ acc[t].wasPending)
                => /\ \E r \in follows : r.id = acc[t].requestId
                                          /\ r.status = "accepted"
                   /\ \E c \in chats :
                        /\ Pair(c) = {tabUser[t], acc[t].followerId}
                        /\ WelcomesOf(messages, c, tabUser[t]) # {}
      ]_vars

\* C14 as claimed: however often the accept of a request is invoked (in a
\* second tab, or again while a call is in flight), the pair has one chat
\* and that chat holds one welcome message of the accepting user.
C14_OneChatOneWelcome ==
    /\ \A c1 \in chats, c2 \in chats : Pair(c1) = Pair(c2) => c1 = c2
    /\ \A c \in chats : \A u \in Pair(c) :
            Cardinality(WelcomesOf(messages, c, u)) <= 1

\* C15 as claimed: when a step of handleAccept fails (the insert of the chat
\* or of the welcome message is answered with an error), that step adds no
\* chat and no message, and the request, if it was pending when the call
\* began, is pending again.
C15_FailedAcceptRollsBack ==
    [][\A t \in Tabs :
            (/\ acc[t].pc \in {"insert", "message"}
             /\ acc'[t].pc = "idle" /\ acc'[t].toast = "error")
                => /\ chats' = chats /\ messages' = messages
                   /\ acc[t].wasPending
                        => \E r \in follows' : r.id = acc[t].requestId
                                               /\ r.status = "pending"
      ]_vars

\* C16 as claimed: the local message list of a Chat screen never holds two
\* entries with the same message id.
C16_NoDuplicateMessage ==
    \A s \in ChatScreens :
        \A i \in DOMAIN live[s].messages, j \in DOMAIN live[s].messages :
            live[s].messages[i].id = live[s].messages[j].id => i = j

\* C17 as claimed: in the local message list of a Chat screen the messages
\* of one conversation are in ascending order of creation (the ids of the
\* rows are handed out in that order).
C17_LocalListOrdered ==
    \A s \in ChatScreens :
        \A i \in DOMAIN live[s].messages, j \in DOMAIN live[s].messages :
            (i < j /\ live[s].messages[i].chat_id = live[s].messages[j].chat_id)
                => live[s].messages[i].id <= live[s].messages[j].id

\* C18 as claimed: once the screen shows conversation Y (the effect ran for
\* Y and its bulk load was applied), no event of an earlier conversation X
\* is applied to its state: the local list holds messages of Y only.
C18_TornDown ==
    \A s \in ChatScreens :
        (/\ chat[s].chatId # NoId
         /\ live[s].effectChatId = chat[s].chatId
         /\ live[s].load.pc = "idle")
            => \A i \in DOMAIN live[s].messages :
                    live[s].messages[i].chat_id = chat[s].chatId

\* The persisted reactions of user u on message m with emoji e.
ReactionsOf(rows, m, u, e) ==
    {r \in rows : r.message_id = m /\ r.user_id = u /\ r.emoji = e}

\* C19 as claimed: a call of handleReaction(m, e) that follows a call
\* handleReaction(m, e) which inserted the reaction (the row it inserted is
\* still there) leaves no reaction (m, u, e) persisted, whether or not the
\* insert event has reached the screen; and a call handleReaction(m, e2)
\* that follows a call handleReaction(m, e1) which inserted a reaction with
\* another emoji, from a state with no reaction (m, u, e2), leaves both
\* persisted.
C19_ToggleTwice ==
    [][\A s \in ChatScreens, m \in MessageIds, e \in Emojis, old \in OldRecords :
        (/\ HandleReaction(s, m, e, old)
         /\ live[s].lastToggle.message_id = m
         /\ \E r \in reactions : r.id = live[s].lastToggle.id)
            => IF live[s].lastToggle.emoji = e
               THEN ReactionsOf(reactions', m, chat[s].user, e) = {}
               ELSE ReactionsOf(reactions, m, chat[s].user, e) = {}
                    => /\ ReactionsOf(reactions', m, chat[s].user, e) # {}
                       /\ \E r \in reactions' : r.id = live[s].lastToggle.id
      ]_vars

\* C20 as claimed: the persisted reactions hold at most one row for a
\* message, a user and an emoji.
C20_OneRowPerTriple ==
    \A r1 \in reactions, r2 \in reactions :
        (/\ r1.message_id = r2.message_id
         /\ r1.user_id = r2.user_id
         /\ r1.emoji = r2.emoji) => r1.id = r2.id

\* C20, witness: two rows of one user on one message with different emoji
\* are persisted, and the insert of a row that is there already, from
\* another device of the user, was answered with the unique violation.
C20_Witness ==
    /\ response = "23505"
    /\ \E r1 \in reactions, r2 \in reactions :
        /\ r1.message_id = r2.message_id
        /\ r1.user_id = r2.user_id
        /\ r1.emoji # r2.emoji

\* C21 as claimed: a call of handleReaction whose insert is answered with the
\* unique violation (the local state did not yet hold the reaction that is
\* persisted) shows no error and leaves the persisted reactions as they are.
C21_DuplicateAddIsApplied ==
    [][\A s \in ChatScreens, m \in MessageIds, e \in Emojis, old \in OldRecords :
        (/\ HandleReaction(s, m, e, old)
         /\ ExistingReaction(s, m, e) = {}
         /\ ReactionsInsertError(chat[s].user, ReactionRow(s, m, e)) = "23505")
            => /\ live'[s].toast = ""
               /\ reactions' = reactions
      ]_vars

\* C22 as claimed: a call of handleSendMessage starts (and so an upload or
\* an insert is sent) only with a draft that is not blank or with a file
\* selected; and the selected file, in the state and in the call, is never
\* larger than 50MB.
C22_ValidatedBeforeNetwork ==
    [][\A s \in ChatScreens :
        /\ (live[s].send.pc = "idle" /\ live'[s].send.pc # "idle")
                => (Trim(live[s].newMessage) # "" \/ live[s].selectedFile # NoFile)
        /\ live'[s].selectedFile.size <= 50 * 1024 * 1024
        /\ live'[s].send.selectedFile.size <= 50 * 1024 * 1024
      ]_vars

\* C22, witness: the screen is ready to send, the draft is white space
\* only, no file is selected after the file of more than 50MB was refused,
\* and no send has started.
C22_Witness ==
    \E s \in ChatScreens :
        /\ ~Loading(s) /\ chat[s].canChat /\ chat[s].chatId # NoId
        /\ live[s].newMessage = "  "
        /\ live[s].selectedFile = NoFile
        /\ live[s].toast = "File must be less than 50MB"
        /\ ~live[s].sending

\* The conversation that a row of a table belongs to.
ConversationOf(table, row) ==
    CASE table = "chats" -> row.id
      [] table = "messages" -> row.chat_id
      [] table = "message_reactions" -> MessageById(row.message_id).chat_id

\* C23 as claimed: a read of chats, messages or message_reactions returns
\* the caller only rows of conversations the caller is a participant of.
C23_ParticipantsOnly ==
    result.table \in Tables =>
        \A r \in result.rows :
            \E c \in chats : /\ c.id = ConversationOf(result.table, r)
                              /\ result.caller \in Pair(c)

\* C23, witness: a read of message_reactions returned some of the
\* reactions and held back others, those of a conversation the caller is
\* not in.
C23_Witness ==
    /\ result.table = "message_reactions"
    /\ result.rows # {}
    /\ \E r \in reactions \ result.rows :
            \A c \in chats : c.id = ConversationOf("message_reactions", r)
                                => result.caller \notin Pair(c)

\* C24 as claimed: the attachment of a message lies in the folder of the
\* message's chat; a read of an object returns it only to a participant of
\* the chat of its folder; and only such a participant can upload to or
\* delete from the folder.
C24_AttachmentAccess ==
    /\ \A m \in MessageIds :
            MessageById(m).media_url # NoUrl
                => MessageById(m).media_url.folder = MessageById(m).chat_id
    /\ result.table = "objects" =>
            \A o \in result.rows :
                \E c \in chats : c.id = o.folder /\ result.caller \in Pair(c)
    /\ \A uid \in Callers, o \in objects \cup FileObjects :
            (ObjectsInsertError(uid, o) = "" \/ ObjectsAfterDelete(uid, o) # objects)
                => \E c \in chats : c.id = o.folder /\ uid \in Pair(c)

\* C30 as claimed: handleSendMessage starts only when no send of the screen
\* is in flight; when a send ends, sending and uploading are false, and the
\* draft and the selected file are cleared when the insert succeeded and
\* kept when the upload or the insert failed; and sending is true exactly
\* while a send is in flight.
C30_OneSendInFlight ==
    [][\A s \in ChatScreens :
        /\ (\E t \in Times : HandleSendMessage(s, t)) => ~live[s].sending
        /\ (live[s].send.pc # "idle" /\ live'[s].send.pc = "idle")
            => /\ ~live'[s].sending /\ ~live'[s].uploading
               /\ IF live[s].send.pc = "insert" /\ live[s].sendError = ""
                  THEN live'[s].newMessage = "" /\ live'[s].selectedFile = NoFile
                  ELSE /\ live'[s].newMessage = live[s].newMessage
                       /\ live'[s].selectedFile = live[s].selectedFile
        /\ live'[s].sending <=> live'[s].send.pc # "idle"
        /\ Len(messages') <= Len(messages) + 1
      ]_vars

\* C30, witness: a send with a file has failed (the upload met an object of
\* the same name); sending and uploading are false again and the file is
\* still selected.
C30_Witness ==
    \E s \in ChatScreens :
        /\ live[s].toast = "error"
        /\ live[s].send.pc = "idle"
        /\ ~live[s].sending /\ ~live[s].uploading
        /\ live[s].selectedFile # NoFile

\* The places of the local reactions of message m on screen s with emoji e.
LocalWith(s, m, e) ==
    {i \in DOMAIN live[s].reactions :
        live[s].reactions[i].message_id = m /\ live[s].reactions[i].emoji = e}

\* What C25 says of the entry of emoji e: it is there exactly when the
\* local list of the message has a reaction with e, its count is the
\* number of these reactions, and userReacted tells whether one of them is
\* the viewer's.
CountsEntryRight(s, m, e) ==
    /\ e \in DOMAIN GetReactionCounts(s, m) <=> LocalWith(s, m, e) # {}
    /\ e \in DOMAIN GetReactionCounts(s, m) =>
        /\ GetReactionCounts(s, m)[e].count = Cardinality(LocalWith(s, m, e))
        /\ GetReactionCounts(s, m)[e].userReacted <=>
                \E i \in LocalWith(s, m, e) :
                    live[s].reactions[i].user_id = chat[s].user

\* C25 amended: for every emoji that is not a property name inherited from
\* Object.prototype, getReactionCounts has the entry the claim describes,
\* and it has no entry for any other key.
C25_CountsByEmoji ==
    \A s \in ChatScreens, m \in MessageIds :
        /\ \A e \in EmojiTexts \ PrototypeKeys : CountsEntryRight(s, m, e)
        /\ DOMAIN GetReactionCounts(s, m) \subseteq EmojiTexts \ PrototypeKeys

\* C25, witness: the local list of a message holds two reactions with one
\* emoji, the viewer's and another user's, and the render counts them.
C25_Witness ==
    \E s \in ChatScreens, m \in MessageIds, e \in Emojis :
        /\ Cardinality(LocalWith(s, m, e)) = 2
        /\ \E i \in LocalWith(s, m, e), j \in LocalWith(s, m, e) :
                /\ live[s].reactions[i].user_id = chat[s].user
                /\ live[s].reactions[j].user_id # chat[s].user
        /\ GetReactionCounts(s, m)[e] = [count |-> 2, userReacted |-> TRUE]

\* C25 as claimed: getReactionCounts has the entry the claim describes for
\* every emoji text.
C25_CountsEveryEmoji ==
    \A s \in ChatScreens, m \in MessageIds :
        \A e \in EmojiTexts : CountsEntryRight(s, m, e)

\* C28 as claimed: the local list of a Requests tab gets an entry only when
\* the tab mounts and fetches; a step of a handler never puts back an entry
\* that a call which reported success has removed.
C28_ResolvedStaysOut ==
    [][\A t \in Tabs :
        (\A u \in Users : ~RequestsMount(t, u))
            => requests'[t] \subseteq requests[t]
      ]_vars

\* C29 as claimed: while a Discover screen stays mounted, the local follow
\* status of a profile that is not 'none' (a follow request to it has
\* succeeded, or the fetch found its row) does not become 'none' again.
C29_StatusNeverBackToNone ==
    [][\A d \in Discovers, p \in Users :
        (/\ \A u \in Users : ~DiscoverMount(d, u)
         /\ disc[d].followStatus[p] # "none")
            => disc'[d].followStatus[p] # "none"
      ]_vars

\* The ids a message can have: the welcome messages and the sends.
LogIds == 1..(Len(LiveMessages) + MaxSends)

\* Message m is committed to the conversation that screen s has open.
Committed(s, m) ==
    /\ chat[s].chatId # NoId
    /\ m \in MessageIds
    /\ MessageById(m).chat_id = chat[s].chatId

\* Message m is in the local message list of screen s.
Shown(s, m) == \E i \in DOMAIN live[s].messages : live[s].messages[i].id = m

\* C26 as claimed: every message committed to the conversation a screen keeps
\* open eventually appears in the local message list of that screen.
C26_NoMessageLost ==
    \A s \in ChatScreens, m \in LogIds :
        [](Committed(s, m) => <>Shown(s, m))

\* Screen s has its conversation open, its effect has run, no query of it is
\* in flight and every event queued on its channels has been delivered.
Settled(s) ==
    /\ chat[s].pc = "done" /\ chat[s].chatId # NoId
    /\ ~EffectPending(s)
    /\ live[s].load.pc = "idle" /\ live[s].rload.pc = "idle"
    /\ \A i \in DOMAIN channels :
            channels[i].screen = s => channels[i].queue = <<>>

\* The places of the local reaction state of screen s that hold row rid.
LocalPlaces(s, rid) ==
    {i \in DOMAIN live[s].reactions : live[s].reactions[i].id = rid}

\* C27 as claimed: once the load has completed and all events are delivered,
\* the local reaction list of each message of the conversation holds exactly
\* the persisted reactions of that message, each id once.
C27_ReactionsConverge ==
    \A s \in ChatScreens :
        Settled(s) =>
            /\ \A r \in reactions :
                    MessageById(r.message_id).chat_id = chat[s].chatId
                        => \E i \in LocalPlaces(s, r.id) :
                                live[s].reactions[i] = r
            /\ \A i \in DOMAIN live[s].reactions :
                    /\ live[s].reactions[i] \in reactions
                    /\ Cardinality(LocalPlaces(s, live[s].reactions[i].id)) = 1

====
